---- MODULE Spec2Model ----
(***************************************************************************)
(* Device protocol framing engine (device-protocol-c): the frame builder,  *)
(* the byte-streamed frame parser and the CRC-16-CCITT that guards every   *)
(* frame, driven by a sender that puts built frames and line noise on a    *)
(* byte stream and a receiver that feeds the stream to one parser.         *)
(***************************************************************************)
EXTENDS Integers, Sequences, FiniteSets, TLC

(***************************************************************************)
(* Protocol constants (include/devproto/protocol.h, crc16.h, frame.h)      *)
(***************************************************************************)
DEVPROTO_HEADER_BYTE0 == 170

DEVPROTO_HEADER_BYTE1 == 85

DEVPROTO_MAX_PAYLOAD_SIZE == 4096

DEVPROTO_HEADER_SIZE == 6

DEVPROTO_CRC_SIZE == 2

DEVPROTO_MIN_FRAME_SIZE == 8

DEVPROTO_MAX_FRAME_SIZE == DEVPROTO_HEADER_SIZE + DEVPROTO_MAX_PAYLOAD_SIZE + DEVPROTO_CRC_SIZE

DEVPROTO_CRC_INITIAL == 65535

DEVPROTO_CRC_POLYNOMIAL == 4129

DEVPROTO_FRAME_ERR_CRC == -1

DEVPROTO_FRAME_ERR_OVERFLOW == -2

DEVPROTO_FRAME_ERR_INVALID == -3

NULL == [ptr |-> "NULL"]

Byte == 0..255

(***************************************************************************)
(* Bit arithmetic on naturals                                              *)
(***************************************************************************)
\* The one element of a singleton set
Only(S) == CHOOSE x \in S : TRUE

BitAt(x, w) == (x \div w) % 2

XorAt(a, b, w) == ((BitAt(a, w) + BitAt(b, w)) % 2) * w

OrAt(a, b, w) == (IF BitAt(a, w) + BitAt(b, w) > 0 THEN 1 ELSE 0) * w

\* a ^ b and a | b on 16-bit values
BitXor(a, b) ==
    XorAt(a, b, 1) + XorAt(a, b, 2) + XorAt(a, b, 4) + XorAt(a, b, 8)
    + XorAt(a, b, 16) + XorAt(a, b, 32) + XorAt(a, b, 64) + XorAt(a, b, 128)
    + XorAt(a, b, 256) + XorAt(a, b, 512) + XorAt(a, b, 1024) + XorAt(a, b, 2048)
    + XorAt(a, b, 4096) + XorAt(a, b, 8192) + XorAt(a, b, 16384) + XorAt(a, b, 32768)

BitOr(a, b) ==
    OrAt(a, b, 1) + OrAt(a, b, 2) + OrAt(a, b, 4) + OrAt(a, b, 8)
    + OrAt(a, b, 16) + OrAt(a, b, 32) + OrAt(a, b, 64) + OrAt(a, b, 128)
    + OrAt(a, b, 256) + OrAt(a, b, 512) + OrAt(a, b, 1024) + OrAt(a, b, 2048)
    + OrAt(a, b, 4096) + OrAt(a, b, 8192) + OrAt(a, b, 16384) + OrAt(a, b, 32768)

(***************************************************************************)
(* The statistics are uint32_t: a pair of 16-bit halves, so that the value *)
(* 2^32 - 1 and the wrap of ++ at it are kept.  Val32 is the number a      *)
(* counter below 2^31 holds.                                               *)
(***************************************************************************)
U32(n) == [hi |-> (n \div 65536) % 65536, lo |-> n % 65536]

UINT32_MAX == [hi |-> 65535, lo |-> 65535]

Inc32(c) ==
    IF c.lo < 65535 THEN [c EXCEPT !.lo = c.lo + 1]
    ELSE [hi |-> (c.hi + 1) % 65536, lo |-> 0]

Val32(c) == c.hi * 65536 + c.lo

Le32(a, b) == a.hi < b.hi \/ (a.hi = b.hi /\ a.lo <= b.lo)

(***************************************************************************)
(* CRC-16-CCITT: polynomial 0x1021, initial 0xFFFF, MSB first, no          *)
(* reflection, no final XOR (spec 4.1; the declarations are in crc16.h).   *)
(***************************************************************************)
\* Variant of crc16_shift that shifts without ever applying the polynomial.
crc16_shift_NoPolynomial(crc) == (crc * 2) % 65536

crc16_shift(crc) ==
    Only({ IF c >= 32768 THEN BitXor((c * 2) % 65536, DEVPROTO_CRC_POLYNOMIAL)
           ELSE (c * 2) % 65536 : c \in {crc} })

crc16_byte(crc, byte) ==
    Only({ crc16_shift(crc16_shift(crc16_shift(crc16_shift(
           crc16_shift(crc16_shift(crc16_shift(crc16_shift(
               BitXor(c, b * 256))))))))) : c \in {crc}, b \in {byte} })

\* The loop over data[lo..hi], in two halves so that long data is summed in
\* few nested steps: the sum of a string is the sum of its second half
\* started from the sum of its first.
RECURSIVE crc16_range(_, _, _, _)
crc16_range(crc, data, lo, hi) ==
    IF lo > hi THEN crc
    ELSE IF lo + 3 = hi
    THEN crc16_byte(crc16_byte(crc16_byte(crc16_byte(
             crc, data[lo]), data[lo + 1]), data[lo + 2]), data[lo + 3])
    ELSE IF lo + 3 > hi
    THEN Only({ crc16_range(c, data, lo + 1, hi) : c \in {crc16_byte(crc, data[lo])} })
    ELSE Only({ crc16_range(c, data, lo + 4 * ((hi - lo + 4) \div 8), hi) :
                c \in {crc16_range(crc, data, lo, lo + 4 * ((hi - lo + 4) \div 8) - 1)} })

crc16_from(crc, data, i) == crc16_range(crc, data, i, Len(data))

\* Variant of devproto_crc16_update that starts over from the initial value.
devproto_crc16_update_Restart(crc, data) ==
    Only({ crc16_from(DEVPROTO_CRC_INITIAL, d, 1) : d \in {data} })

devproto_crc16_update(crc, data) ==
    Only({ crc16_from(crc, d, 1) : d \in {data} })

devproto_crc16(data) == devproto_crc16_update(DEVPROTO_CRC_INITIAL, data)

(***************************************************************************)
(* The parser context (devproto_frame_parser_t).  buffer holds the bytes   *)
(* of the fixed array up to the highest index written so far; every index  *)
(* beyond it still has the 0 that devproto_frame_parser_init's memset put  *)
(* there.                                                                  *)
(***************************************************************************)
Zeros(n) == [k \in 1..n |-> 0]

BufAt(buffer, i) == IF i < Len(buffer) THEN buffer[i + 1] ELSE 0

BufSet(buffer, i, byte) ==
    IF i < Len(buffer) THEN [buffer EXCEPT ![i + 1] = byte]
    ELSE Append(buffer \o Zeros(i - Len(buffer)), byte)

BufRange(buffer, from, n) ==
    IF from + n <= Len(buffer) THEN SubSeq(buffer, from + 1, from + n)
    ELSE SubSeq(buffer \o Zeros(from + n - Len(buffer)), from + 1, from + n)

devproto_frame_parser_init ==
    [state |-> "IDLE", buffer |-> <<>>, buffer_pos |-> 0,
     expected_length |-> 0, payload_received |-> 0,
     msg_type |-> 0, sequence |-> 0, crc_received |-> 0,
     frames_parsed |-> U32(0), crc_errors |-> U32(0), sync_errors |-> U32(0)]

\* mutant: the reset forgets to zero the fields of the frame in progress
devproto_frame_parser_reset_StateOnly(p) ==
    [p EXCEPT !.state = "IDLE", !.buffer_pos = 0]

\* mutant: the reset is a second init, the statistics go with the rest
devproto_frame_parser_reset_ClearsCounters(p) ==
    [devproto_frame_parser_init EXCEPT !.buffer = p.buffer]

devproto_frame_parser_reset(p) ==
    [p EXCEPT !.state = "IDLE", !.buffer_pos = 0, !.expected_length = 0,
              !.payload_received = 0, !.msg_type = 0, !.sequence = 0,
              !.crc_received = 0]

(***************************************************************************)
(* devproto_frame_parse_byte, one operator per case of its switch.  Each   *)
(* yields the parser after the call and the value the call returns.        *)
(***************************************************************************)
Step(p, ret) == [p |-> p, ret |-> ret]

\* mutant: a byte discarded in IDLE counts as a sync error
ParseIdle_CountsDiscarded(p, byte) ==
    IF byte = DEVPROTO_HEADER_BYTE0
    THEN Step([p EXCEPT !.buffer = BufSet(p.buffer, 0, byte), !.buffer_pos = 1,
                        !.state = "HEADER_LO"], 0)
    ELSE Step([p EXCEPT !.sync_errors = Inc32(p.sync_errors)], 0)

ParseIdle(p, byte) ==
    IF byte = DEVPROTO_HEADER_BYTE0
    THEN Step([p EXCEPT !.buffer = BufSet(p.buffer, 0, byte), !.buffer_pos = 1,
                        !.state = "HEADER_LO"], 0)
    ELSE Step(p, 0)

\* mutant: a second 0xAA after 0xAA counts as a sync error
ParseHeaderLo_NoRestart(p, byte) ==
    IF byte = DEVPROTO_HEADER_BYTE1
    THEN Step([p EXCEPT !.buffer = BufSet(p.buffer, 1, byte), !.buffer_pos = 2,
                        !.state = "LENGTH_HI"], 0)
    ELSE Step(devproto_frame_parser_reset(
                  [p EXCEPT !.sync_errors = Inc32(p.sync_errors)]), 0)

\* Variant of ParseHeaderLo that counts a sync error for a repeated 0xAA.
ParseHeaderLo_CountsRestart(p, byte) ==
    IF byte = DEVPROTO_HEADER_BYTE1
    THEN Step([p EXCEPT !.buffer = BufSet(p.buffer, 1, byte), !.buffer_pos = 2,
                        !.state = "LENGTH_HI"], 0)
    ELSE IF byte = DEVPROTO_HEADER_BYTE0
    THEN Step([p EXCEPT !.buffer = BufSet(p.buffer, 0, byte), !.buffer_pos = 1,
                        !.sync_errors = Inc32(p.sync_errors)], 0)
    ELSE Step(devproto_frame_parser_reset(
                  [p EXCEPT !.sync_errors = Inc32(p.sync_errors)]), 0)

ParseHeaderLo(p, byte) ==
    IF byte = DEVPROTO_HEADER_BYTE1
    THEN Step([p EXCEPT !.buffer = BufSet(p.buffer, 1, byte), !.buffer_pos = 2,
                        !.state = "LENGTH_HI"], 0)
    ELSE IF byte = DEVPROTO_HEADER_BYTE0
    THEN Step([p EXCEPT !.buffer = BufSet(p.buffer, 0, byte), !.buffer_pos = 1], 0)
    ELSE Step(devproto_frame_parser_reset(
                  [p EXCEPT !.sync_errors = Inc32(p.sync_errors)]), 0)

ParseLengthHi(p, byte) ==
    Step([p EXCEPT !.buffer = BufSet(p.buffer, 2, byte), !.buffer_pos = 3,
                   !.expected_length = (byte * 256) % 65536,
                   !.state = "LENGTH_LO"], 0)

\* mutant: the length is checked against the frame size, not the payload size
ParseLengthLo_FrameSizeLimit(p, byte) ==
    LET q == [p EXCEPT !.buffer = BufSet(p.buffer, 3, byte), !.buffer_pos = 4,
                       !.expected_length = BitOr(p.expected_length, byte)]
    IN  IF q.expected_length > DEVPROTO_MAX_FRAME_SIZE
        THEN Step(devproto_frame_parser_reset(
                      [q EXCEPT !.sync_errors = Inc32(q.sync_errors)]),
                  DEVPROTO_FRAME_ERR_OVERFLOW)
        ELSE Step([q EXCEPT !.state = "TYPE"], 0)

ParseLengthLo(p, byte) ==
    LET q == [p EXCEPT !.buffer = BufSet(p.buffer, 3, byte), !.buffer_pos = 4,
                       !.expected_length = BitOr(p.expected_length, byte)]
    IN  IF q.expected_length > DEVPROTO_MAX_PAYLOAD_SIZE
        THEN Step(devproto_frame_parser_reset(
                      [q EXCEPT !.sync_errors = Inc32(q.sync_errors)]),
                  DEVPROTO_FRAME_ERR_OVERFLOW)
        ELSE Step([q EXCEPT !.state = "TYPE"], 0)

ParseType(p, byte) ==
    Step([p EXCEPT !.buffer = BufSet(p.buffer, 4, byte), !.buffer_pos = 5,
                   !.msg_type = byte, !.state = "SEQUENCE"], 0)

\* mutant: the payload state is entered whatever the declared length
ParseSequence_AlwaysPayload(p, byte) ==
    Step([p EXCEPT !.buffer = BufSet(p.buffer, 5, byte), !.buffer_pos = 6,
                   !.sequence = byte, !.payload_received = 0,
                   !.state = "PAYLOAD"], 0)

ParseSequence(p, byte) ==
    Step([p EXCEPT !.buffer = BufSet(p.buffer, 5, byte), !.buffer_pos = 6,
                   !.sequence = byte, !.payload_received = 0,
                   !.state = IF p.expected_length = 0 THEN "CRC_HI" ELSE "PAYLOAD"], 0)

ParsePayload(p, byte) ==
    IF p.buffer_pos < DEVPROTO_MAX_FRAME_SIZE
    THEN LET q == [p EXCEPT !.buffer = BufSet(p.buffer, p.buffer_pos, byte),
                            !.buffer_pos = p.buffer_pos + 1,
                            !.payload_received = p.payload_received + 1]
         IN  Step([q EXCEPT !.state = IF q.payload_received >= q.expected_length
                                      THEN "CRC_HI" ELSE "PAYLOAD"], 0)
    ELSE Step(devproto_frame_parser_reset(
                  [p EXCEPT !.sync_errors = Inc32(p.sync_errors)]),
              DEVPROTO_FRAME_ERR_OVERFLOW)

ParseCrcHi(p, byte) ==
    Step([p EXCEPT !.crc_received = (byte * 256) % 65536, !.state = "CRC_LO"], 0)

\* mutant: a good CRC returns 1 but leaves the state at CRC_LO
ParseCrcLo_NoComplete(p, byte) ==
    LET q == [p EXCEPT !.crc_received = BitOr(p.crc_received, byte)]
        data_len == DEVPROTO_HEADER_SIZE + q.expected_length
        crc_calc == devproto_crc16(BufRange(q.buffer, 0, data_len))
    IN  IF crc_calc = q.crc_received
        THEN Step([q EXCEPT !.frames_parsed = Inc32(q.frames_parsed)], 1)
        ELSE Step(devproto_frame_parser_reset(
                      [q EXCEPT !.crc_errors = Inc32(q.crc_errors), !.state = "ERROR"]),
                  DEVPROTO_FRAME_ERR_CRC)

\* mutant: only the low byte of the CRC is compared
ParseCrcLo_LowByteOnly(p, byte) ==
    LET q == [p EXCEPT !.crc_received = BitOr(p.crc_received, byte)]
        data_len == DEVPROTO_HEADER_SIZE + q.expected_length
        crc_calc == devproto_crc16(BufRange(q.buffer, 0, data_len))
    IN  IF crc_calc % 256 = q.crc_received % 256
        THEN Step([q EXCEPT !.state = "COMPLETE",
                            !.frames_parsed = Inc32(q.frames_parsed)], 1)
        ELSE Step(devproto_frame_parser_reset(
                      [q EXCEPT !.crc_errors = Inc32(q.crc_errors), !.state = "ERROR"]),
                  DEVPROTO_FRAME_ERR_CRC)

\* mutant: a bad CRC is counted and reported, but the state is left at CRC_LO
ParseCrcLo_NoResetOnError(p, byte) ==
    LET q == [p EXCEPT !.crc_received = BitOr(p.crc_received, byte)]
        data_len == DEVPROTO_HEADER_SIZE + q.expected_length
        crc_calc == devproto_crc16(BufRange(q.buffer, 0, data_len))
    IN  IF crc_calc = q.crc_received
        THEN Step([q EXCEPT !.state = "COMPLETE",
                            !.frames_parsed = Inc32(q.frames_parsed)], 1)
        ELSE Step([q EXCEPT !.crc_errors = Inc32(q.crc_errors)], DEVPROTO_FRAME_ERR_CRC)

\* mutant: the frame is counted before its CRC is checked
ParseCrcLo_CountsFirst(p, byte) ==
    LET q == [p EXCEPT !.crc_received = BitOr(p.crc_received, byte),
                       !.frames_parsed = Inc32(p.frames_parsed)]
        data_len == DEVPROTO_HEADER_SIZE + q.expected_length
        crc_calc == devproto_crc16(BufRange(q.buffer, 0, data_len))
    IN  IF crc_calc = q.crc_received
        THEN Step([q EXCEPT !.state = "COMPLETE"], 1)
        ELSE Step(devproto_frame_parser_reset(
                      [q EXCEPT !.crc_errors = Inc32(q.crc_errors), !.state = "ERROR"]),
                  DEVPROTO_FRAME_ERR_CRC)

ParseCrcLo(p, byte) ==
    LET q == [p EXCEPT !.crc_received = BitOr(p.crc_received, byte)]
        data_len == DEVPROTO_HEADER_SIZE + q.expected_length
        crc_calc == devproto_crc16(BufRange(q.buffer, 0, data_len))
    IN  IF crc_calc = q.crc_received
        THEN Step([q EXCEPT !.state = "COMPLETE",
                            !.frames_parsed = Inc32(q.frames_parsed)], 1)
        ELSE Step(devproto_frame_parser_reset(
                      [q EXCEPT !.crc_errors = Inc32(q.crc_errors), !.state = "ERROR"]),
                  DEVPROTO_FRAME_ERR_CRC)

\* Variant of ParseComplete that resets and drops the byte.
ParseComplete_DropsByte(p, byte) == Step(devproto_frame_parser_reset(p), 0)

ParseComplete(p, byte) ==
    LET q == devproto_frame_parser_reset(p)
    IN  IF byte = DEVPROTO_HEADER_BYTE0
        THEN Step([q EXCEPT !.buffer = BufSet(q.buffer, 0, byte), !.buffer_pos = 1,
                            !.state = "HEADER_LO"], 0)
        ELSE Step(q, 0)

devproto_frame_parse_byte(p, byte) ==
    CASE p.state = "IDLE"      -> ParseIdle(p, byte)
      [] p.state = "HEADER_LO" -> ParseHeaderLo(p, byte)
      [] p.state = "LENGTH_HI" -> ParseLengthHi(p, byte)
      [] p.state = "LENGTH_LO" -> ParseLengthLo(p, byte)
      [] p.state = "TYPE"      -> ParseType(p, byte)
      [] p.state = "SEQUENCE"  -> ParseSequence(p, byte)
      [] p.state = "PAYLOAD"   -> ParsePayload(p, byte)
      [] p.state = "CRC_HI"    -> ParseCrcHi(p, byte)
      [] p.state = "CRC_LO"    -> ParseCrcLo(p, byte)
      [] p.state \in {"COMPLETE", "ERROR"} -> ParseComplete(p, byte)

(***************************************************************************)
(* The inline helpers of protocol.h on message types (uint8_t).            *)
(***************************************************************************)
devproto_is_response(msg_type) == msg_type >= 128 /\ msg_type < 160

\* mutant: every type from 0x80 up taken for an event
devproto_is_event_FromResponses(msg_type) == msg_type >= 128

devproto_is_event(msg_type) == msg_type >= 160

devproto_response_type(request_type) == BitOr(request_type, 128) % 256

(***************************************************************************)
(* Messages (devproto_message_t).  A payload pointer is NULL, Own(bytes):   *)
(* bytes the caller owns, or VIEW: the address of buffer[6] of the parser. *)
(***************************************************************************)
VIEW == [ptr |-> "VIEW"]

Own(bytes) == [ptr |-> "OWN", bytes |-> bytes]

Message(t, s, n, pl) == [msg_type |-> t, sequence |-> s, payload_len |-> n, payload |-> pl]

\* mutant: the message is handed out whatever the parser state
devproto_frame_get_message_NoStateCheck(p, msg) ==
    IF p = NULL \/ msg = NULL THEN [ret |-> -1, msg |-> msg]
    ELSE [ret |-> 0,
          msg |-> Message(p.msg_type, p.sequence, p.expected_length,
                          IF p.expected_length > 0 THEN VIEW ELSE NULL)]

devproto_frame_get_message(p, msg) ==
    IF p = NULL \/ msg = NULL THEN [ret |-> -1, msg |-> msg]
    ELSE IF p.state # "COMPLETE" THEN [ret |-> -1, msg |-> msg]
    ELSE [ret |-> 0,
          msg |-> Message(p.msg_type, p.sequence, p.expected_length,
                          IF p.expected_length > 0 THEN VIEW ELSE NULL)]

\* The bytes a message's payload pointer reads, given the parser it may point into.
PayloadBytes(msg, p) ==
    IF msg.payload = NULL THEN <<>>
    ELSE IF msg.payload = VIEW THEN BufRange(p.buffer, DEVPROTO_HEADER_SIZE, msg.payload_len)
    ELSE msg.payload.bytes

(***************************************************************************)
(* The message constructors of protocol.c.  Each yields what *msg holds    *)
(* after the call; payload_len is uint16_t, so a length is stored modulo   *)
(* 2^16.                                                                   *)
(***************************************************************************)
DEVPROTO_MSG_REQUEST_METRICS == 2

DEVPROTO_MSG_EXECUTE_COMMAND == 3

DEVPROTO_METRIC_ALL == 255

\* static uint8_t all_metrics of devproto_create_metrics_request: one byte
\* for the whole program, set to DEVPROTO_METRIC_ALL when the program starts.
VARIABLE all_metrics

\* A pointer to all_metrics, with the byte it shows.
Static(bytes) == [ptr |-> "STATIC", bytes |-> bytes]

\* mutant: no types gives an empty payload
devproto_create_metrics_request_Empty(msg, sequence, types, num_types) ==
    IF msg = NULL THEN msg
    ELSE IF types # NULL /\ num_types > 0
    THEN Message(DEVPROTO_MSG_REQUEST_METRICS, sequence, num_types % 65536, types)
    ELSE Message(DEVPROTO_MSG_REQUEST_METRICS, sequence, 0, NULL)

devproto_create_metrics_request(msg, sequence, types, num_types) ==
    IF msg = NULL THEN msg
    ELSE IF types # NULL /\ num_types > 0
    THEN Message(DEVPROTO_MSG_REQUEST_METRICS, sequence, num_types % 65536, types)
    ELSE Message(DEVPROTO_MSG_REQUEST_METRICS, sequence, 1, Static(<<all_metrics>>))

devproto_create_command(msg, sequence, cmd_type, params, params_len) ==
    IF msg = NULL THEN msg
    ELSE Message(DEVPROTO_MSG_EXECUTE_COMMAND, sequence, params_len % 65536, params)

(***************************************************************************)
(* The metrics codec of metrics.c.  A float is held as its IEEE-754 single *)
(* precision bit pattern, a uint32_t in the two 16-bit halves of U32: the  *)
(* union of devproto_float_to_be and devproto_float_from_be reads the same *)
(* 32 bits as float and as uint32_t.  A metric is a (type, value) record,  *)
(* an array of metrics a pointer to a sequence of them.                    *)
(***************************************************************************)
INT32_MAX == 2147483647

Array(items) == [ptr |-> "OWN", items |-> items]

Metric(type, value) == [type |-> type, value |-> value]

\* Variant of devproto_float_to_be that stores the pattern in the byte order of
\* a little-endian host.
devproto_float_to_be_HostOrder(value) ==
    <<value.lo % 256, (value.lo \div 256) % 256,
      value.hi % 256, (value.hi \div 256) % 256>>

devproto_float_to_be(value) ==
    <<(value.hi \div 256) % 256, value.hi % 256,
      (value.lo \div 256) % 256, value.lo % 256>>

devproto_float_from_be(bytes) ==
    [hi |-> BitOr(bytes[1] * 256, bytes[2]), lo |-> BitOr(bytes[3] * 256, bytes[4])]

\* Variant of devproto_metric_encode that writes type 0 for every code above
\* the system metrics.
devproto_metric_encode_KnownOnly(type, value, entry) ==
    IF entry = NULL THEN [ret |-> -1, entry |-> entry]
    ELSE [ret |-> 0,
          entry |-> [type |-> IF type % 256 > 15 THEN 0 ELSE type % 256,
                     value_bytes |-> devproto_float_to_be(value)]]

devproto_metric_encode(type, value, entry) ==
    IF entry = NULL THEN [ret |-> -1, entry |-> entry]
    ELSE [ret |-> 0,
          entry |-> [type |-> type % 256,
                     value_bytes |-> devproto_float_to_be(value)]]

devproto_metric_decode(entry, metric) ==
    IF entry = NULL \/ metric = NULL THEN [ret |-> -1, metric |-> metric]
    ELSE [ret |-> 0,
          metric |-> Metric(entry.type, devproto_float_from_be(entry.value_bytes))]

\* Variant of the loop of devproto_metrics_parse that also takes a last record
\* of which only the first byte is there, reading the missing bytes as 0.
RECURSIVE ParseRecords_Partial(_, _, _, _, _, _)
ParseRecords_Partial(payload, payload_len, metrics, max_metrics, offset, count) ==
    IF offset < payload_len /\ count < max_metrics
    THEN LET byte(i) == IF i <= payload_len THEN payload[i] ELSE 0
             entry == [type |-> byte(offset + 1),
                       value_bytes |-> <<byte(offset + 2), byte(offset + 3),
                                         byte(offset + 4), byte(offset + 5)>>]
             decoded == devproto_metric_decode(entry, metrics[count + 1])
         IN ParseRecords_Partial(payload, payload_len,
                                 [metrics EXCEPT ![count + 1] = decoded.metric],
                                 max_metrics, offset + 5, count + 1)
    ELSE [ret |-> count, metrics |-> metrics]

\* The loop of devproto_metrics_parse: one 5-byte record per round into the
\* next free element of the caller's array.
RECURSIVE ParseRecords(_, _, _, _, _, _)
ParseRecords(payload, payload_len, metrics, max_metrics, offset, count) ==
    IF offset + 5 <= payload_len /\ count < max_metrics
    THEN LET entry == [type |-> payload[offset + 1],
                       value_bytes |-> SubSeq(payload, offset + 2, offset + 5)]
             decoded == devproto_metric_decode(entry, metrics[count + 1])
         IN ParseRecords(payload, payload_len,
                         IF decoded.ret = 0
                         THEN [metrics EXCEPT ![count + 1] = decoded.metric]
                         ELSE metrics,
                         max_metrics, offset + 5,
                         IF decoded.ret = 0 THEN count + 1 ELSE count)
    ELSE [ret |-> count, metrics |-> metrics]

\* ret is the returned int, metrics the caller's array after the call.
devproto_metrics_parse(payload, payload_len, metrics, max_metrics) ==
    IF payload = NULL \/ metrics = NULL \/ max_metrics = 0
    THEN [ret |-> -1, metrics |-> IF metrics = NULL THEN <<>> ELSE metrics.items]
    ELSE ParseRecords(payload.bytes, payload_len, metrics.items,
                      IF max_metrics > INT32_MAX THEN INT32_MAX ELSE max_metrics,
                      0, 0)

\* The bytes the loop of devproto_metrics_build writes for metrics i..num_metrics.
RECURSIVE BuildRecords(_, _, _)
BuildRecords(metrics, num_metrics, i) ==
    IF i > num_metrics THEN <<>>
    ELSE LET entry == devproto_metric_encode(metrics[i].type, metrics[i].value,
                                             [type |-> 0, value_bytes |-> <<0, 0, 0, 0>>]).entry
         IN (<<entry.type>> \o entry.value_bytes) \o BuildRecords(metrics, num_metrics, i + 1)

\* ret is the returned int, bytes the caller's buffer after the call.  The
\* guard on num_metrics > SIZE_MAX / 5 is beyond every count taken here.
devproto_metrics_build(metrics, num_metrics, buffer, buf_size) ==
    IF metrics = NULL \/ buffer = NULL
    THEN [ret |-> -1, bytes |-> IF buffer = NULL THEN <<>> ELSE buffer.bytes]
    ELSE LET needed == num_metrics * 5
         IN IF buf_size < needed \/ needed > INT32_MAX
            THEN [ret |-> -1, bytes |-> buffer.bytes]
            ELSE [ret |-> needed,
                  bytes |-> BuildRecords(metrics.items, num_metrics, 1)
                            \o SubSeq(buffer.bytes, needed + 1, Len(buffer.bytes))]

(***************************************************************************)
(* devproto_frame_parse: the loop over data[i], i < len, that stops once   *)
(* max_messages messages are stored.  st.out is out_messages[0..count-1]   *)
(* and st.done the payload bytes each stored message pointed at when it    *)
(* was stored; st.read is the loop index i when the loop is left.          *)
(***************************************************************************)
\* mutant: every message is stored at out_messages[0]
ParseStored_FirstSlot(st, p) ==
    LET g == devproto_frame_get_message(p, Message(0, 0, 0, NULL))
    IN  IF g.ret = 0
        THEN [p    |-> devproto_frame_parser_reset(p),
              out  |-> <<g.msg>>,
              done |-> <<PayloadBytes(g.msg, p)>>,
              read |-> st.read]
        ELSE [st EXCEPT !.p = devproto_frame_parser_reset(p)]

ParseStored(st, p) ==
    LET g == devproto_frame_get_message(p, Message(0, 0, 0, NULL))
    IN  IF g.ret = 0
        THEN [p    |-> devproto_frame_parser_reset(p),
              out  |-> Append(st.out, g.msg),
              done |-> Append(st.done, PayloadBytes(g.msg, p)),
              read |-> st.read]
        ELSE [st EXCEPT !.p = devproto_frame_parser_reset(p)]

ParseIter(st, byte) ==
    Only({ IF r.ret = 1 THEN ParseStored(st, r.p) ELSE [st EXCEPT !.p = r.p] :
           r \in {devproto_frame_parse_byte(st.p, byte)} })

RECURSIVE ParseLoop(_, _, _, _)
ParseLoop(st, data, i, max_messages) ==
    IF i < Len(data) /\ Len(st.out) < max_messages
    THEN Only({ ParseLoop(nx, data, i + 1, max_messages) :
                nx \in {ParseIter(st, data[i + 1])} })
    ELSE [st EXCEPT !.read = i]

\* mutant: every call starts from a reset parser
devproto_frame_parse_Restart(p, data, max_messages) ==
    Only({ [p |-> st.p, ret |-> Len(st.out), out |-> st.out, done |-> st.done,
            read |-> st.read] :
           st \in {ParseLoop([p |-> devproto_frame_parser_reset(p), out |-> <<>>,
                              done |-> <<>>, read |-> 0],
                             data.bytes, 0, max_messages)} })

devproto_frame_parse(p, data, max_messages) ==
    IF p = NULL \/ data = NULL \/ max_messages = 0
    THEN [p |-> p, ret |-> DEVPROTO_FRAME_ERR_INVALID, out |-> <<>>, done |-> <<>>,
          read |-> 0]
    ELSE Only({ [p |-> st.p, ret |-> Len(st.out), out |-> st.out, done |-> st.done,
                 read |-> st.read] :
                st \in {ParseLoop([p |-> p, out |-> <<>>, done |-> <<>>, read |-> 0],
                                  data.bytes, 0, max_messages)} })

(***************************************************************************)
(* devproto_frame_build.  buffer is NULL or Own(bytes), the caller's array *)
(* with the contents it had before the call; the result carries the value  *)
(* returned and the array's contents after the call.                       *)
(***************************************************************************)
\* mutant: the length written low byte first
FrameHeader_LittleEndian(msg) ==
    << DEVPROTO_HEADER_BYTE0, DEVPROTO_HEADER_BYTE1,
       msg.payload_len % 256, (msg.payload_len \div 256) % 256,
       msg.msg_type, msg.sequence >>

FrameHeader(msg) ==
    << DEVPROTO_HEADER_BYTE0, DEVPROTO_HEADER_BYTE1,
       (msg.payload_len \div 256) % 256, msg.payload_len % 256,
       msg.msg_type, msg.sequence >>

FramePayload(msg, buffer) ==
    IF msg.payload_len > 0 /\ msg.payload # NULL
    THEN SubSeq(msg.payload.bytes, 1, msg.payload_len)
    ELSE SubSeq(buffer.bytes, DEVPROTO_HEADER_SIZE + 1,
                DEVPROTO_HEADER_SIZE + msg.payload_len)

\* mutant: the CRC written low byte first
FrameCrc_LittleEndian(data) ==
    Only({ << crc % 256, (crc \div 256) % 256 >> : crc \in {devproto_crc16(data)} })

FrameCrc(data) ==
    Only({ << (crc \div 256) % 256, crc % 256 >> : crc \in {devproto_crc16(data)} })

\* mutant: the sync bytes, length, type and sequence are written before the
\* buffer size is looked at
devproto_frame_build_HeaderFirst(msg, buffer, buf_size) ==
    IF msg = NULL \/ buffer = NULL
    THEN [ret |-> -1, bytes |-> IF buffer = NULL THEN <<>> ELSE buffer.bytes]
    ELSE IF msg.payload_len > DEVPROTO_MAX_PAYLOAD_SIZE
    THEN [ret |-> -1, bytes |-> buffer.bytes]
    ELSE LET frame_len == DEVPROTO_HEADER_SIZE + msg.payload_len + DEVPROTO_CRC_SIZE
         IN  IF buf_size < frame_len
             THEN [ret   |-> -1,
                   bytes |-> FrameHeader(msg)
                             \o SubSeq(buffer.bytes, DEVPROTO_HEADER_SIZE + 1,
                                       Len(buffer.bytes))]
             ELSE LET data == FrameHeader(msg) \o FramePayload(msg, buffer)
                  IN  [ret   |-> frame_len,
                       bytes |-> data \o FrameCrc(data)
                                 \o SubSeq(buffer.bytes, frame_len + 1, Len(buffer.bytes))]

\* mutant: the failures are told apart with the codes of devproto_frame_error_t
devproto_frame_build_ErrorCodes(msg, buffer, buf_size) ==
    IF msg = NULL \/ buffer = NULL
    THEN [ret   |-> DEVPROTO_FRAME_ERR_INVALID,
          bytes |-> IF buffer = NULL THEN <<>> ELSE buffer.bytes]
    ELSE IF msg.payload_len > DEVPROTO_MAX_PAYLOAD_SIZE
    THEN [ret |-> DEVPROTO_FRAME_ERR_OVERFLOW, bytes |-> buffer.bytes]
    ELSE LET frame_len == DEVPROTO_HEADER_SIZE + msg.payload_len + DEVPROTO_CRC_SIZE
         IN  IF buf_size < frame_len
             THEN [ret |-> DEVPROTO_FRAME_ERR_OVERFLOW, bytes |-> buffer.bytes]
             ELSE LET data == FrameHeader(msg) \o FramePayload(msg, buffer)
                  IN  [ret   |-> frame_len,
                       bytes |-> data \o FrameCrc(data)
                                 \o SubSeq(buffer.bytes, frame_len + 1, Len(buffer.bytes))]

devproto_frame_build(msg, buffer, buf_size) ==
    IF msg = NULL \/ buffer = NULL
    THEN [ret |-> -1, bytes |-> IF buffer = NULL THEN <<>> ELSE buffer.bytes]
    ELSE IF msg.payload_len > DEVPROTO_MAX_PAYLOAD_SIZE
    THEN [ret |-> -1, bytes |-> buffer.bytes]
    ELSE LET frame_len == DEVPROTO_HEADER_SIZE + msg.payload_len + DEVPROTO_CRC_SIZE
         IN  IF buf_size < frame_len
             THEN [ret |-> -1, bytes |-> buffer.bytes]
             ELSE LET data == FrameHeader(msg) \o FramePayload(msg, buffer)
                  IN  [ret   |-> frame_len,
                       bytes |-> data \o FrameCrc(data)
                                 \o SubSeq(buffer.bytes, frame_len + 1, Len(buffer.bytes))]

(***************************************************************************)
(* The device of examples/mips_device.c.  A handler yields the frames it   *)
(* hands to the transport, none or one.  The sensor readings vary at       *)
(* random around device_state, the uptime grows with the clock: both are   *)
(* inputs of a handler.  errors and warnings are never written and stay 0. *)
(***************************************************************************)
DEVPROTO_MSG_PING == 1

DEVPROTO_MSG_GET_STATUS == 5

DEVPROTO_MSG_PONG == 129

DEVPROTO_MSG_METRICS_RESPONSE == 130

DEVPROTO_MSG_COMMAND_RESULT == 131

DEVPROTO_MSG_STATUS_RESPONSE == 133

DEVPROTO_STATUS_OK == 0

devproto_create_ping(msg, sequence) ==
    IF msg = NULL THEN msg ELSE Message(DEVPROTO_MSG_PING, sequence, 0, NULL)

\* mutant: the pong carries sequence 0
devproto_create_pong_NoSequence(msg, sequence) ==
    IF msg = NULL THEN msg ELSE Message(DEVPROTO_MSG_PONG, 0, 0, NULL)

devproto_create_pong(msg, sequence) ==
    IF msg = NULL THEN msg ELSE Message(DEVPROTO_MSG_PONG, sequence, 0, NULL)

\* "Command executed successfully"
CommandOutput ==
    <<67, 111, 109, 109, 97, 110, 100, 32, 101, 120, 101, 99, 117, 116, 101, 100, 32,
      115, 117, 99, 99, 101, 115, 115, 102, 117, 108, 108, 121>>

\* readings is <<temperature, cpu usage, memory usage, fan speed, signal>>.
collect_metrics(readings, max) ==
    IF max < 5 THEN [ret |-> -1, metrics |-> <<>>]
    ELSE [ret |-> 5,
          metrics |-> <<Metric(3, readings[1]), Metric(1, readings[2]),
                        Metric(2, readings[3]), Metric(5, readings[4]),
                        Metric(16, readings[5])>>]

\* The frame is built in a local array of DEVPROTO_MAX_FRAME_SIZE bytes that
\* holds stale bytes, and its first len bytes go to the transport.
send_response(msg, stale) ==
    LET built == devproto_frame_build(msg, Own([i \in 1..DEVPROTO_MAX_FRAME_SIZE |-> stale]),
                                      DEVPROTO_MAX_FRAME_SIZE)
    IN IF built.ret < 0 THEN <<>> ELSE <<SubSeq(built.bytes, 1, built.ret)>>

handle_ping(sequence, stale) ==
    send_response(devproto_create_pong(Message(0, 0, 0, NULL), sequence), stale)

handle_metrics_request(sequence, readings, stale) ==
    LET collected == collect_metrics(readings, 16)
    IN IF collected.ret < 0 THEN <<>>
       ELSE LET built == devproto_metrics_build(Array(collected.metrics), collected.ret,
                                                Own([i \in 1..256 |-> stale]), 256)
            IN IF built.ret < 0 THEN <<>>
               ELSE send_response(Message(DEVPROTO_MSG_METRICS_RESPONSE, sequence,
                                          built.ret, Own(built.bytes)), stale)

\* uptime is the uint32_t uptime_seconds in its two 16-bit halves.
handle_status_request(sequence, uptime, stale) ==
    LET payload == <<DEVPROTO_STATUS_OK,
                     (uptime.hi \div 256) % 256, uptime.hi % 256,
                     (uptime.lo \div 256) % 256, uptime.lo % 256,
                     0, 0, 0, 0>>
    IN send_response(Message(DEVPROTO_MSG_STATUS_RESPONSE, sequence, 9, Own(payload)), stale)

handle_command(sequence, payload, len, stale) ==
    IF len < 1 THEN <<>>
    ELSE LET result_payload == <<0, 0>> \o CommandOutput
         IN send_response(Message(DEVPROTO_MSG_COMMAND_RESULT, sequence,
                                  Len(result_payload), Own(result_payload)), stale)

\* msg is the parsed message, bytes what its payload pointer shows.
handle_message(msg, bytes, readings, uptime, stale) ==
    IF msg.msg_type = DEVPROTO_MSG_PING THEN handle_ping(msg.sequence, stale)
    ELSE IF msg.msg_type = DEVPROTO_MSG_REQUEST_METRICS
    THEN handle_metrics_request(msg.sequence, readings, stale)
    ELSE IF msg.msg_type = DEVPROTO_MSG_GET_STATUS
    THEN handle_status_request(msg.sequence, uptime, stale)
    ELSE IF msg.msg_type = DEVPROTO_MSG_EXECUTE_COMMAND
    THEN handle_command(msg.sequence, bytes, msg.payload_len, stale)
    ELSE <<>>

(***************************************************************************)
(* The TCP transport of transport_tcp.c and devproto_transport_destroy.    *)
(* open_fds is the set of socket descriptors the process holds; socket()   *)
(* returns the lowest number that is free, or fails.  A transport is its   *)
(* fd and is_open fields and whether it has been freed.                    *)
(***************************************************************************)
FirstFd == 3

\* The process may hold at most MaxSockets sockets; socket() fails beyond.
MaxSockets == 4

\* t after calloc and the assignments of devproto_transport_tcp_create
devproto_transport_tcp_create == [fd |-> -1, is_open |-> 0, freed |-> FALSE]

\* One address of the getaddrinfo result in the loop of tcp_open: socket()
\* fails, connect() fails and the socket is closed again, or connect()
\* succeeds.  st.done says that the loop was left by break.
TryAddress(st, outcome) ==
    IF st.done THEN st
    ELSE IF outcome = "nosocket" \/ Cardinality(st.fds) >= MaxSockets
    THEN [st EXCEPT !.t.fd = -1]
    ELSE LET fd == CHOOSE n \in FirstFd..(FirstFd + Cardinality(st.fds)) :
                       /\ n \notin st.fds
                       /\ \A m \in FirstFd..(n - 1) : m \in st.fds
         IN  IF outcome = "connected"
             THEN [st EXCEPT !.t.fd = fd, !.fds = st.fds \cup {fd}, !.done = TRUE]
             ELSE [st EXCEPT !.t.fd = -1]

RECURSIVE TryAddresses(_, _, _)
TryAddresses(st, outcomes, i) ==
    IF i > Len(outcomes) THEN st
    ELSE TryAddresses(TryAddress(st, outcomes[i]), outcomes, i + 1)

\* outcomes is what happens at each address getaddrinfo gave, none if
\* getaddrinfo failed.
tcp_open(t, fds, outcomes) ==
    IF outcomes = <<>> THEN [t |-> t, fds |-> fds, ret |-> -1]
    ELSE LET st == TryAddresses([t |-> t, fds |-> fds, done |-> FALSE], outcomes, 1)
         IN  IF st.t.fd < 0 THEN [t |-> st.t, fds |-> st.fds, ret |-> -1]
             ELSE [t |-> [st.t EXCEPT !.is_open = 1], fds |-> st.fds, ret |-> 0]

tcp_close(t, fds) ==
    IF t.fd >= 0 THEN [t |-> [t EXCEPT !.fd = -1, !.is_open = 0], fds |-> fds \ {t.fd}]
    ELSE [t |-> [t EXCEPT !.is_open = 0], fds |-> fds]

\* sent is what the send loop ends with: len, or -1 on an error.
tcp_send(t, len, sent) ==
    IF t.is_open = 0 \/ t.fd < 0 THEN -1 ELSE sent

\* got is what select and recv come to: "error", "timeout", "closed" when
\* recv returns 0, or "bytes" when it returns n > 0.
tcp_recv(t, got, n) ==
    IF t.is_open = 0 \/ t.fd < 0 THEN [t |-> t, ret |-> -1]
    ELSE IF got = "closed" THEN [t |-> [t EXCEPT !.is_open = 0], ret |-> -1]
    ELSE IF got = "error" THEN [t |-> t, ret |-> -1]
    ELSE IF got = "timeout" THEN [t |-> t, ret |-> 0]
    ELSE [t |-> t, ret |-> n]

devproto_transport_destroy(t, fds) ==
    LET closed == IF t.is_open # 0 THEN tcp_close(t, fds) ELSE [t |-> t, fds |-> fds]
    IN  [t |-> [closed.t EXCEPT !.freed = TRUE], fds |-> closed.fds]

(***************************************************************************)
(* Bounds of the model and the byte values the inputs are drawn from       *)
(***************************************************************************)
MaxLen == 2

MaxMessages == 2

TxBufSize == 16

KindSet == {1, 129, 170}

SeqSet == {5, 85}

PayByte == {0, 170}

StaleByte == {0, 255}

Payloads == UNION {[1..n -> PayByte] : n \in 1..MaxLen}

Msgs ==
    {Message(t, s, 0, NULL) : t \in KindSet, s \in SeqSet}
    \cup {Message(t, s, Len(pl), Own(pl)) : t \in KindSet, s \in SeqSet, pl \in Payloads}

(***************************************************************************)
(* The sender's plan: frames to build and send, each optionally with one   *)
(* byte changed on the line (byte at pos XORed with mask), and line noise. *)
(***************************************************************************)
Frame(m) == [t |-> "frame", msg |-> m, pos |-> 0, mask |-> 0, bytes |-> <<>>]

Corrupted(m, pos, mask) == [t |-> "frame", msg |-> m, pos |-> pos, mask |-> mask, bytes |-> <<>>]

Noise(g) == [t |-> "noise", msg |-> Message(0, 0, 0, NULL), pos |-> 0, mask |-> 0, bytes |-> g]

Corrupt(bytes, pos, mask) ==
    IF pos < Len(bytes) THEN [bytes EXCEPT ![pos + 1] = BitXor(bytes[pos + 1], mask)]
    ELSE bytes

VARIABLES parser, wire, plan, txlog, ret, lastop, lastlen, lastmax, out_messages, emitted,
          unread, resets, call, result, replies, reads, held, host_sequence, transport, open_fds

vars == <<parser, wire, plan, txlog, ret, lastop, lastlen, lastmax, out_messages, emitted,
          unread, resets, call, result, replies, reads, held, all_metrics, host_sequence, transport, open_fds>>

\* call and result hold the arguments and the outcome of the last call of a
\* function that touches no parser; NoCall before the first such call.
NoCall == [fn |-> "none"]

\* A completed message as get_message delivers it, with the payload bytes read
\* through its payload pointer at that moment.
Delivered(msg, bytes) ==
    [msg_type |-> msg.msg_type, sequence |-> msg.sequence,
     payload_len |-> msg.payload_len, payload |-> bytes]

InitFrom(parsers, plans) ==
    /\ all_metrics = DEVPROTO_METRIC_ALL
    /\ parser \in parsers
    /\ wire = <<>>
    /\ plan \in plans
    /\ txlog = <<>>
    /\ ret = 0
    /\ lastop = "init"
    /\ lastlen = 0
    /\ lastmax = 0
    /\ out_messages = <<>>
    /\ emitted = <<>>
    /\ unread = 0
    /\ resets = FALSE
    /\ call = NoCall
    /\ result = NoCall
    /\ replies = <<>>
    /\ reads = 0
    /\ held = [k \in 1..2 |-> Message(0, 0, 0, NULL)]
    /\ host_sequence = 0
    /\ transport = devproto_transport_tcp_create
    /\ open_fds = {}

\* A parser fresh from devproto_frame_parser_init.
InitWith(plans) == InitFrom({devproto_frame_parser_init}, plans)

\* The sender builds the next frame of its plan into its transmit array and
\* writes the returned number of bytes to the line (or writes the noise).
Send ==
    /\ plan # <<>>
    /\ \E stale \in StaleByte :
       \E b \in {devproto_frame_build(Head(plan).msg, Own([i \in 1..TxBufSize |-> stale]), TxBufSize)} :
         LET seg == Head(plan)
             out == IF seg.t = "noise" THEN seg.bytes
                    ELSE IF b.ret > 0 THEN Corrupt(SubSeq(b.bytes, 1, b.ret), seg.pos, seg.mask)
                    ELSE <<>>
         IN  /\ wire' = wire \o out
             /\ txlog' = IF out = <<>> THEN txlog ELSE Append(txlog, [seg EXCEPT !.bytes = out])
             /\ ret' = IF seg.t = "noise" THEN ret ELSE b.ret
    /\ plan' = Tail(plan)
    /\ lastop' = "send"
    /\ lastlen' = 0
    /\ lastmax' = 0
    /\ UNCHANGED <<parser, out_messages, emitted, unread, resets, call, result, replies, reads, held, all_metrics, host_sequence, transport, open_fds>>

\* The receiver feeds the next byte of the line: devproto_frame_parse_byte.
ParseByte ==
    /\ plan = <<>>
    /\ wire # <<>>
    /\ \E r \in {devproto_frame_parse_byte(parser, Head(wire))} :
       LET g == devproto_frame_get_message(r.p, Message(0, 0, 0, NULL))
       IN  /\ parser' = r.p
           /\ ret' = r.ret
           /\ emitted' = IF r.ret = 1
                         THEN Append(emitted, Delivered(g.msg, PayloadBytes(g.msg, r.p)))
                         ELSE emitted
    /\ wire' = Tail(wire)
    /\ lastop' = "parse_byte"
    /\ lastlen' = 0
    /\ lastmax' = 0
    /\ UNCHANGED <<plan, txlog, out_messages, unread, resets, call, result, replies, reads, held, all_metrics, host_sequence, transport, open_fds>>

\* The receiver hands the next n bytes of the line to one devproto_frame_parse
\* call.  The call does not tell how many of them it read: what it left unread
\* when it stopped at max_messages is gone.
ParseChunk(n, max_messages) ==
    /\ plan = <<>>
    /\ \E r \in {devproto_frame_parse(parser, Own(SubSeq(wire, 1, n)), max_messages)} :
             /\ parser' = r.p
             /\ ret' = r.ret
             /\ out_messages' = r.out
             /\ emitted' = emitted \o [i \in 1..Len(r.out) |-> Delivered(r.out[i], r.done[i])]
             /\ unread' = unread + (n - r.read)
    /\ wire' = SubSeq(wire, n + 1, Len(wire))
    /\ lastlen' = n
    /\ lastmax' = max_messages
    /\ lastop' = "parse"
    /\ UNCHANGED <<plan, txlog, resets, call, result, replies, reads, held, all_metrics, host_sequence, transport, open_fds>>

\* Any non-empty prefix of what is on the line, any capacity of out_messages.
Parse == \E n \in 1..Len(wire), max_messages \in 1..MaxMessages : ParseChunk(n, max_messages)

\* All that is on the line in one call.
ParseWhole == wire # <<>> /\ \E max_messages \in 1..MaxMessages : ParseChunk(Len(wire), max_messages)

\* devproto_frame_get_message into the caller's message.
GetMessage ==
    /\ LET g == devproto_frame_get_message(parser, Message(0, 0, 0, NULL))
       IN  /\ ret' = g.ret
           /\ out_messages' = IF g.ret = 0 THEN <<g.msg>> ELSE out_messages
    /\ lastop' = "get_message"
    /\ lastlen' = 0
    /\ lastmax' = 0
    /\ UNCHANGED <<parser, wire, plan, txlog, emitted, unread, resets, call, result, replies, reads, held, all_metrics, host_sequence, transport, open_fds>>

\* devproto_frame_parser_reset called by the receiver.
Reset ==
    /\ parser' = devproto_frame_parser_reset(parser)
    /\ resets' = TRUE
    /\ lastop' = "reset"
    /\ lastlen' = 0
    /\ lastmax' = 0
    /\ UNCHANGED <<wire, plan, txlog, ret, out_messages, emitted, unread, call, result, replies, reads, held, all_metrics, host_sequence, transport, open_fds>>

NextFeed == Send \/ ParseByte \/ Parse \/ GetMessage

Next == NextFeed \/ Reset

\* One frame, sent intact.
Init == InitWith({<<Frame(m)>> : m \in Msgs})

Spec == Init /\ [][Next]_vars

(***************************************************************************)
(* One frame with one byte changed on the line: every byte position, every *)
(* single-bit mask and the mask 0xFF of test_crc_error.  PingMsg is the    *)
(* PING of the tests; CrcAsPayload carries as its payload the CRC of the   *)
(* PING's header, so that its first eight bytes with length 0 in place of  *)
(* 2 are the PING's frame; OneByteMsg has length 1, SyncInside has the     *)
(* bytes AA 55 as its type and sequence.                                   *)
(***************************************************************************)
PingMsg == Message(1, 1, 0, NULL)

CrcAsPayload == Message(1, 1, 2, Own(FrameCrc(FrameHeader(PingMsg))))

OneByteMsg == Message(129, 5, 1, Own(<<170>>))

SyncInside == Message(170, 85, 0, NULL)

FlipMsgs == {PingMsg, CrcAsPayload, OneByteMsg, SyncInside}

BitMasks == {1, 2, 4, 8, 16, 32, 64, 128}

FlipMasks == BitMasks \cup {255}

FrameLen(m) == DEVPROTO_HEADER_SIZE + m.payload_len + DEVPROTO_CRC_SIZE

InitFlip ==
    InitWith(UNION {{<<Corrupted(m, pos, mask)>> :
                        pos \in 0..(FrameLen(m) - 1), mask \in FlipMasks} : m \in FlipMsgs})

NextFlip == Send \/ ParseByte \/ Parse

SpecFlip == InitFlip /\ [][NextFlip]_vars

(***************************************************************************)
(* A frame with one byte changed, immediately followed by an intact frame. *)
(***************************************************************************)
PairFirst == {PingMsg, OneByteMsg, SyncInside}

PairSecond == {Message(2, 2, 0, NULL), Message(1, 6, 1, Own(<<85>>))}

PairMasks == {1, 255}

InitPair ==
    InitWith(UNION {{<<Corrupted(m1, pos, mask), Frame(m2)>> :
                        pos \in 0..(FrameLen(m1) - 1), mask \in PairMasks, m2 \in PairSecond} :
                    m1 \in PairFirst})

NextStream == Send \/ ParseByte \/ ParseWhole \/ GetMessage

SpecPair == InitPair /\ [][NextStream]_vars

(***************************************************************************)
(* Two frames with bytes that belong to no frame before, between and after *)
(* them: the garbage of test_sync_recovery, a lone sync pair, and every    *)
(* string of at most MaxGarbage bytes over GarbageByte between the frames. *)
(***************************************************************************)
MaxGarbage == 2

GarbageByte == {18, 85, 170}

Garbage == UNION {[1..n -> GarbageByte] : n \in 0..MaxGarbage}

LeadGarbage == {<<>>, <<18, 52, 86, 170, 0, 170>>, <<170, 85>>}

TrailGarbage == {<<>>, <<170>>}

InitGarbage ==
    InitWith({<<Noise(g0), Frame(PingMsg), Noise(g1), Frame(m2), Noise(g2)>> :
                  g0 \in LeadGarbage, g1 \in Garbage, m2 \in PairSecond, g2 \in TrailGarbage})

SpecGarbage == InitGarbage /\ [][NextStream]_vars

(***************************************************************************)
(* Two intact frames back to back, the first with a payload, read in calls *)
(* of any length: a call may end anywhere inside the second frame.         *)
(***************************************************************************)
TailFirst == {OneByteMsg, Message(1, 6, 1, Own(<<85>>))}

TailSecond == {PingMsg, Message(129, 5, 2, Own(<<0, 170>>))}

InitTail == InitWith({<<Frame(m1), Frame(m2)>> : m1 \in TailFirst, m2 \in TailSecond})

SpecTail == InitTail /\ [][NextFeed]_vars

(***************************************************************************)
(* The receiver makes any of its four calls in any order, on streams with  *)
(* a false start, a frame that fails its CRC, a declared length over the   *)
(* limit, and frames that complete.                                        *)
(***************************************************************************)
CallPlans ==
    { <<Frame(PingMsg)>>,
      <<Frame(SyncInside)>>,
      <<Noise(<<170, 18>>), Corrupted(PingMsg, 7, 255), Frame(OneByteMsg)>>,
      <<Corrupted(OneByteMsg, 2, 32), Frame(PingMsg)>> }

InitCalls == InitWith(CallPlans)

SpecCalls == InitCalls /\ [][Next]_vars

(***************************************************************************)
(* The same on a parser that has been counting for a long time: each of    *)
(* its counters is at 0 or at 2^32 - 1.                                    *)
(***************************************************************************)
LongRun ==
    { [devproto_frame_parser_init EXCEPT !.frames_parsed = f, !.crc_errors = c,
                                         !.sync_errors = s] :
        f \in {U32(0), UINT32_MAX}, c \in {U32(0), UINT32_MAX}, s \in {U32(0), UINT32_MAX} }
    \ {devproto_frame_parser_init}

LongPlans ==
    { <<Frame(PingMsg)>>,
      <<Noise(<<170, 18>>), Corrupted(PingMsg, 7, 255)>> }

InitLong == InitFrom(LongRun, LongPlans)

SpecLong == InitLong /\ [][Next]_vars

(***************************************************************************)
(* Bytes that belong to no frame, then a frame: every string of at most    *)
(* MaxLead bytes over GarbageByte before a PING, and the stream            *)
(* 12 34 AA | AA 55 00 00 01 05 crc | AA 55 00 00 81 05 crc.               *)
(***************************************************************************)
MaxLead == 3

Lead == UNION {[1..n -> GarbageByte] : n \in 0..MaxLead}

TwoKinds == <<Noise(<<18, 52, 170>>), Frame(Message(1, 5, 0, NULL)),
              Frame(Message(129, 5, 0, NULL))>>

InitLead == InitWith({<<Noise(g), Frame(PingMsg)>> : g \in Lead} \cup {TwoKinds})

SpecLead == InitLead /\ [][NextStream]_vars

(***************************************************************************)
(* devproto_frame_build called with any of: no message, a message without  *)
(* payload, with a payload of up to MaxLen bytes, with a length but a NULL *)
(* payload pointer, with a declared length at and over the limit; no       *)
(* buffer or an array of TxBufSize bytes; a buf_size from 0 to TxBufSize.  *)
(***************************************************************************)
BuildMsgs ==
    {NULL}
    \cup {Message(t, 5, 0, NULL) : t \in {1, 170}}
    \cup {Message(129, 85, Len(pl), Own(pl)) : pl \in Payloads}
    \cup {Message(1, 5, n, NULL) : n \in 1..MaxLen}
    \cup {Message(1, 5, n, Own(<<0>>)) :
            n \in {DEVPROTO_MAX_PAYLOAD_SIZE, DEVPROTO_MAX_PAYLOAD_SIZE + 1}}

TxBuffers == {NULL} \cup {Own([i \in 1..TxBufSize |-> stale]) : stale \in StaleByte}

BufSizes ==
    {0, DEVPROTO_MIN_FRAME_SIZE - 1}
    \cup DEVPROTO_MIN_FRAME_SIZE..(DEVPROTO_MIN_FRAME_SIZE + MaxLen)
    \cup {TxBufSize}

Build ==
    /\ \E msg \in BuildMsgs, buffer \in TxBuffers, buf_size \in BufSizes :
         /\ call' = [fn |-> "devproto_frame_build", msg |-> msg, buffer |-> buffer,
                     buf_size |-> buf_size]
         /\ result' = devproto_frame_build(msg, buffer, buf_size)
    /\ UNCHANGED <<parser, wire, plan, txlog, ret, lastop, lastlen, lastmax, out_messages,
                   emitted, unread, resets, replies, reads, held, all_metrics, host_sequence, transport, open_fds>>

InitBuild == InitWith({<<>>})

NextBuild == Build

SpecBuild == InitBuild /\ [][NextBuild]_vars

(***************************************************************************)
(* The helpers on message types called with every uint8_t value.           *)
(***************************************************************************)
ResponseType ==
    /\ \E request_type \in Byte :
         /\ call' = [fn |-> "devproto_response_type", request_type |-> request_type]
         /\ result' = [ret |-> devproto_response_type(request_type)]
    /\ UNCHANGED <<parser, wire, plan, txlog, ret, lastop, lastlen, lastmax, out_messages,
                   emitted, unread, resets, replies, reads, held, all_metrics, host_sequence, transport, open_fds>>

IsResponse ==
    /\ \E msg_type \in Byte :
         /\ call' = [fn |-> "devproto_is_response", msg_type |-> msg_type]
         /\ result' = [ret |-> devproto_is_response(msg_type)]
    /\ UNCHANGED <<parser, wire, plan, txlog, ret, lastop, lastlen, lastmax, out_messages,
                   emitted, unread, resets, replies, reads, held, all_metrics, host_sequence, transport, open_fds>>

IsEvent ==
    /\ \E msg_type \in Byte :
         /\ call' = [fn |-> "devproto_is_event", msg_type |-> msg_type]
         /\ result' = [ret |-> devproto_is_event(msg_type)]
    /\ UNCHANGED <<parser, wire, plan, txlog, ret, lastop, lastlen, lastmax, out_messages,
                   emitted, unread, resets, replies, reads, held, all_metrics, host_sequence, transport, open_fds>>

InitKinds == InitWith({<<>>})

NextKinds == ResponseType \/ IsResponse \/ IsEvent

SpecKinds == InitKinds /\ [][NextKinds]_vars

(***************************************************************************)
(* The constructors called with a message to fill or none, any sequence    *)
(* number of SeqSet, no bytes or up to MaxLen bytes of the caller, and a   *)
(* count that is 0, the number of those bytes, or at the edge of uint16_t. *)
(***************************************************************************)
CmdTypes == {1, 4, 255}

CallerBytes == {NULL} \cup {Own(pl) : pl \in Payloads}

Counts(bytes) ==
    {0, 65535, 65536} \cup (IF bytes = NULL THEN {1} ELSE {Len(bytes.bytes)})

Blank == Message(0, 0, 0, NULL)

CreateCommand ==
    /\ \E msg \in {NULL, Blank}, sequence \in SeqSet, cmd_type \in CmdTypes,
          params \in CallerBytes :
         \E params_len \in Counts(params) :
           /\ call' = [fn |-> "devproto_create_command", msg |-> msg,
                       sequence |-> sequence, cmd_type |-> cmd_type,
                       params |-> params, params_len |-> params_len]
           /\ result' = [msg |-> devproto_create_command(msg, sequence, cmd_type,
                                                         params, params_len)]
    /\ UNCHANGED <<parser, wire, plan, txlog, ret, lastop, lastlen, lastmax, out_messages,
                   emitted, unread, resets, replies, reads, held, all_metrics, host_sequence, transport, open_fds>>

CreateMetricsRequest ==
    /\ \E msg \in {NULL, Blank}, sequence \in SeqSet, types \in CallerBytes :
         \E num_types \in Counts(types) :
           /\ call' = [fn |-> "devproto_create_metrics_request", msg |-> msg,
                       sequence |-> sequence, types |-> types, num_types |-> num_types]
           /\ result' = [msg |-> devproto_create_metrics_request(msg, sequence, types,
                                                                 num_types)]
    /\ UNCHANGED <<parser, wire, plan, txlog, ret, lastop, lastlen, lastmax, out_messages,
                   emitted, unread, resets, replies, reads, held, all_metrics, host_sequence, transport, open_fds>>

InitCreate == InitWith({<<>>})

NextCreate == CreateCommand \/ CreateMetricsRequest

SpecCreate == InitCreate /\ [][NextCreate]_vars

(***************************************************************************)
(* The metrics codec called on up to MaxMetrics metrics: known and unknown *)
(* type codes, values with every byte of the pattern different, a NaN with *)
(* a payload among them.  The builder gets a buffer that is missing, one   *)
(* byte too small, exact or larger; the parser gets what the builder wrote *)
(* with or without bytes of a cut record behind it, or the payload of the  *)
(* message the frame parser delivers for a frame of LENGTH 0.              *)
(***************************************************************************)
MaxMetrics == 2

F32(hi, lo) == [hi |-> hi, lo |-> lo]

\* {0x00, -75.0 + 2 ulp}, {0xC7, NaN 0x7FA1B2C3}, {0xFF, 55.0 + 1 ulp}
MetricSamples ==
    {Metric(0, F32(49814, 2)), Metric(199, F32(32673, 45763)), Metric(255, F32(16988, 1))}

MetricLists == UNION {[1..n -> MetricSamples] : n \in 0..MaxMetrics}

StaleMetric == Metric(170, F32(43690, 43690))

StaleMetrics(n) == Array([i \in 1..n |-> StaleMetric])

StaleBuffer(n) == Own([i \in 1..n |-> 238])

CutRecords == {<<>>, <<3>>, <<3, 66, 92, 0>>}

\* The message a fresh parser delivers for the frame of a response without
\* payload.
EmptyResponse ==
    LET built == devproto_frame_build(Message(130, 66, 0, NULL),
                                      StaleBuffer(DEVPROTO_MIN_FRAME_SIZE),
                                      DEVPROTO_MIN_FRAME_SIZE)
        parsed == devproto_frame_parse(devproto_frame_parser_init,
                                       Own(built.bytes), 1)
    IN parsed.out[1]

MetricsBuild ==
    /\ \E list \in MetricLists :
         \E metrics \in {NULL, Array(list)},
            size \in {0, 5 * Len(list) - 1, 5 * Len(list), 5 * MaxMetrics + 1} \cap Nat,
            given \in BOOLEAN :
           \E buffer \in {IF given THEN StaleBuffer(size) ELSE NULL} :
             /\ call' = [fn |-> "devproto_metrics_build", metrics |-> metrics,
                         num_metrics |-> Len(list), buffer |-> buffer,
                         buf_size |-> size]
             /\ result' = devproto_metrics_build(metrics, Len(list), buffer, size)
    /\ UNCHANGED <<parser, wire, plan, txlog, ret, lastop, lastlen, lastmax, out_messages,
                   emitted, unread, resets, replies, reads, held, all_metrics, host_sequence, transport, open_fds>>

MetricsParse ==
    /\ \E payload \in {EmptyResponse.payload}
                      \cup {Own(BuildRecords(list, Len(list), 1) \o cut) :
                              list \in MetricLists, cut \in CutRecords},
          metrics \in {NULL, StaleMetrics(MaxMetrics + 1)},
          max_metrics \in 0..(MaxMetrics + 1) :
         \E payload_len \in {IF payload = NULL THEN 0 ELSE Len(payload.bytes)} :
           /\ call' = [fn |-> "devproto_metrics_parse", payload |-> payload,
                       payload_len |-> payload_len, metrics |-> metrics,
                       max_metrics |-> max_metrics]
           /\ result' = devproto_metrics_parse(payload, payload_len, metrics,
                                               max_metrics)
    /\ UNCHANGED <<parser, wire, plan, txlog, ret, lastop, lastlen, lastmax, out_messages,
                   emitted, unread, resets, replies, reads, held, all_metrics, host_sequence, transport, open_fds>>

InitMetrics == InitWith({<<>>})

NextMetrics == MetricsBuild \/ MetricsParse

SpecMetrics == InitMetrics /\ [][NextMetrics]_vars

(***************************************************************************)
(* The float codec called on every pattern whose four bytes are 0x00,      *)
(* 0x01, 0x7F, 0x80 or 0xFF: both zeros, both infinities, quiet and        *)
(* signalling NaNs, subnormals and ordinary values are among them.         *)
(***************************************************************************)
FloatBytes == {0, 1, 127, 128, 255}

FloatPatterns ==
    {F32(b1 * 256 + b2, b3 * 256 + b4) : b1 \in FloatBytes, b2 \in FloatBytes,
                                          b3 \in FloatBytes, b4 \in FloatBytes}

FloatToBe ==
    /\ \E value \in FloatPatterns :
         /\ call' = [fn |-> "devproto_float_to_be", value |-> value]
         /\ result' = [bytes |-> devproto_float_to_be(value)]
    /\ UNCHANGED <<parser, wire, plan, txlog, ret, lastop, lastlen, lastmax, out_messages,
                   emitted, unread, resets, replies, reads, held, all_metrics, host_sequence, transport, open_fds>>

FloatFromBe ==
    /\ \E bytes \in [1..4 -> FloatBytes] :
         /\ call' = [fn |-> "devproto_float_from_be", bytes |-> bytes]
         /\ result' = [value |-> devproto_float_from_be(bytes)]
    /\ UNCHANGED <<parser, wire, plan, txlog, ret, lastop, lastlen, lastmax, out_messages,
                   emitted, unread, resets, replies, reads, held, all_metrics, host_sequence, transport, open_fds>>

InitFloat == InitWith({<<>>})

NextFloat == FloatToBe \/ FloatFromBe

SpecFloat == InitFloat /\ [][NextFloat]_vars

(***************************************************************************)
(* The CRC engine called on every byte string of up to MaxSplit bytes over *)
(* 0x01 and 0xFF, on the arrays of test_crc_streaming and                  *)
(* test_crc_error_detection, and on strings of MaxFlipLen bytes and half   *)
(* of that; the streaming update is called from the initial value and from *)
(* the CRC of a first part of up to one byte or of the test's six bytes.   *)
(***************************************************************************)
MaxSplit == 3

MaxFlipLen == 64

CrcBytes == {1, 255}

StreamingData == <<170, 85, 0, 5, 2, 1, 72, 101, 108, 108, 111>>

ErrorData == <<170, 85, 0, 1, 1, 1, 255>>

Ramp(n) == [i \in 1..n |-> (37 * i) % 256]

CrcData ==
    UNION {[1..n -> CrcBytes] : n \in 0..MaxSplit}
    \cup {StreamingData, SubSeq(StreamingData, 7, 11), ErrorData,
          Ramp(MaxFlipLen \div 2), Ramp(MaxFlipLen),
          [i \in 1..MaxFlipLen |-> 0]}

CrcHeads == {<<>>, SubSeq(StreamingData, 1, 6)} \cup {<<b>> : b \in CrcBytes}

Crc16 ==
    /\ \E data \in CrcData :
         /\ call' = [fn |-> "devproto_crc16", data |-> data]
         /\ result' = [crc |-> devproto_crc16(data)]
    /\ UNCHANGED <<parser, wire, plan, txlog, ret, lastop, lastlen, lastmax, out_messages,
                   emitted, unread, resets, replies, reads, held, all_metrics, host_sequence, transport, open_fds>>

Crc16Update ==
    /\ \E head \in CrcHeads, data \in CrcData :
         \E crc \in {devproto_crc16(head)} :
           /\ call' = [fn |-> "devproto_crc16_update", crc |-> crc, data |-> data]
           /\ result' = [crc |-> devproto_crc16_update(crc, data)]
    /\ UNCHANGED <<parser, wire, plan, txlog, ret, lastop, lastlen, lastmax, out_messages,
                   emitted, unread, resets, replies, reads, held, all_metrics, host_sequence, transport, open_fds>>

InitCrc == InitWith({<<>>})

NextCrc == Crc16 \/ Crc16Update

SpecCrc == InitCrc /\ [][NextCrc]_vars

(***************************************************************************)
(* Two frames back to back, read one byte at a time by                     *)
(* devproto_frame_parse_byte alone, with no reset by the caller: both      *)
(* intact, or the first with the last bit of its CRC flipped.              *)
(***************************************************************************)
InitBytes ==
    InitWith({<<Frame(m1), Frame(m2)>> : m1 \in TailFirst, m2 \in TailSecond}
             \cup {<<Corrupted(m1, FrameLen(m1) - 1, 1), Frame(m2)>> :
                     m1 \in TailFirst, m2 \in TailSecond})

NextBytes == Send \/ ParseByte

SpecBytes == InitBytes /\ [][NextBytes]_vars

(***************************************************************************)
(* The device loop: the host sends one or two requests, of every kind the  *)
(* device answers, a command without payload and a kind it has no handler  *)
(* for, and the device reads the line in pieces of any length.             *)
(***************************************************************************)
RxBufferSize == 1024

DeviceMaxMessages == 4

\* A device does at most MaxReads rounds of its loop.
MaxReads == 3

\* What the sensors and the clock show in one round: 55.0, 25.0, 45.0, 3000.0,
\* -75.0 of device_state at uptime 0, and readings off them later on.
DeviceInputs ==
    {[readings |-> <<F32(16988, 0), F32(16840, 0), F32(16948, 0), F32(17723, 32768),
                     F32(49814, 0)>>,
      uptime |-> U32(0)],
     [readings |-> <<F32(16988, 52429), F32(16842, 0), F32(16948, 0), F32(17724, 16384),
                     F32(49816, 0)>>,
      uptime |-> U32(65536 + 258)]}

DeviceRequests ==
    {Message(t, s, 0, NULL) : t \in {DEVPROTO_MSG_PING, DEVPROTO_MSG_GET_STATUS,
                                     DEVPROTO_MSG_EXECUTE_COMMAND, 6}, s \in SeqSet}
    \cup {devproto_create_metrics_request(Message(0, 0, 0, NULL), s, NULL, 0) : s \in SeqSet}
    \cup {devproto_create_command(Message(0, 0, 0, NULL), s, 1, Own(<<1>>), 1) : s \in SeqSet}

\* The requests that follow another one.
DeviceSecond ==
    {devproto_create_ping(Message(0, 0, 0, NULL), 85),
     devproto_create_metrics_request(Message(0, 0, 0, NULL), 85, NULL, 0),
     devproto_create_command(Message(0, 0, 0, NULL), 85, 1, NULL, 0)}

\* The frames handle_message sends for msgs[i], msgs[i + 1], ..., in order.
RECURSIVE HandleFrom(_, _, _, _, _, _)
HandleFrom(msgs, p, i, readings, uptime, stale) ==
    IF i > Len(msgs) THEN <<>>
    ELSE handle_message(msgs[i], PayloadBytes(msgs[i], p), readings, uptime, stale)
         \o HandleFrom(msgs, p, i + 1, readings, uptime, stale)

\* One round of main_loop in which devproto_transport_recv returns n > 0
\* bytes: they are parsed into msgs[4], every message is handled, and the
\* parser is reset.
DeviceRead ==
    /\ plan = <<>>
    /\ wire # <<>>
    /\ reads < MaxReads
    /\ \E n \in 1..(IF Len(wire) < RxBufferSize THEN Len(wire) ELSE RxBufferSize),
          in \in DeviceInputs, stale \in StaleByte :
         \E r \in {devproto_frame_parse(parser, Own(SubSeq(wire, 1, n)), DeviceMaxMessages)} :
             /\ parser' = devproto_frame_parser_reset(r.p)
             /\ ret' = r.ret
             /\ out_messages' = r.out
             /\ emitted' = emitted \o [i \in 1..Len(r.out) |->
                                         Delivered(r.out[i], PayloadBytes(r.out[i], r.p))]
             /\ replies' = replies \o HandleFrom(r.out, r.p, 1, in.readings, in.uptime, stale)
             /\ unread' = unread + (n - r.read)
             /\ wire' = SubSeq(wire, n + 1, Len(wire))
             /\ lastlen' = n
    /\ reads' = reads + 1
    /\ lastmax' = DeviceMaxMessages
    /\ lastop' = "main_loop"
    /\ UNCHANGED <<plan, txlog, resets, call, result, held, all_metrics, host_sequence, transport, open_fds>>

InitDevice ==
    InitWith({<<Frame(m)>> : m \in DeviceRequests}
             \cup {<<Frame(m1), Frame(m2)>> : m1 \in DeviceRequests, m2 \in DeviceSecond})

NextDevice == Send \/ DeviceRead

SpecDevice == InitDevice /\ [][NextDevice]_vars

(***************************************************************************)
(* Two messages of one caller.  Each is filled by the constructor, with    *)
(* types of its own or with none, has a byte stored through its payload    *)
(* pointer (uint8_t *payload is no pointer to const), or is built into a   *)
(* frame.  Arrays the caller passes in are a different array per message;  *)
(* what devproto_create_metrics_request points a message at when it is     *)
(* given no types is the one all_metrics.                                  *)
(***************************************************************************)
HeldSlots == {1, 2}

StoredByte == {1, 16}

\* msg->payload[0] = byte, seen through a pointer that is or is not ptr.
StoreThrough(ptr, byte, seen) ==
    IF ptr.ptr = "STATIC" /\ seen.ptr = "STATIC"
    THEN Static(<<byte>>)
    ELSE seen

\* devproto_create_metrics_request(&held[k], sequence, types, num_types)
HeldRequest(k) ==
    /\ \E sequence \in SeqSet, types \in {NULL, Own(<<3>>)} :
         /\ held' = [held EXCEPT ![k] = devproto_create_metrics_request(
                                           held[k], sequence, types,
                                           IF types = NULL THEN 0 ELSE 1)]
         /\ call' = [fn |-> "devproto_create_metrics_request", slot |-> k,
                     sequence |-> sequence, types |-> types]
    /\ result' = NoCall
    /\ lastop' = "create"
    /\ UNCHANGED <<parser, wire, plan, txlog, ret, lastlen, lastmax, out_messages, emitted,
                   unread, resets, replies, reads, all_metrics, host_sequence, transport, open_fds>>

\* held[k].payload[0] = byte by the caller.
HeldStore(k) ==
    /\ held[k].payload # NULL
    /\ held[k].payload_len >= 1
    /\ \E byte \in StoredByte :
         /\ held' = [j \in HeldSlots |->
                       IF j = k
                       THEN [held[j] EXCEPT !.payload.bytes = [@ EXCEPT ![1] = byte]]
                       ELSE [held[j] EXCEPT !.payload = StoreThrough(held[k].payload, byte, @)]]
         /\ all_metrics' = IF held[k].payload.ptr = "STATIC" THEN byte ELSE all_metrics
         /\ call' = [fn |-> "store", slot |-> k, byte |-> byte]
    /\ result' = NoCall
    /\ lastop' = "store"
    /\ UNCHANGED <<parser, wire, plan, txlog, ret, lastlen, lastmax, out_messages, emitted,
                   unread, resets, replies, reads, host_sequence, transport, open_fds>>

\* devproto_frame_build(&held[k], buffer, sizeof(buffer))
HeldBuild(k) ==
    /\ \E stale \in StaleByte :
         \E b \in {devproto_frame_build(held[k], Own([i \in 1..TxBufSize |-> stale]), TxBufSize)} :
             /\ result' = [ret |-> b.ret, frame |-> SubSeq(b.bytes, 1, b.ret)]
             /\ ret' = b.ret
    /\ call' = [fn |-> "devproto_frame_build", slot |-> k]
    /\ lastop' = "build"
    /\ UNCHANGED <<parser, wire, plan, txlog, lastlen, lastmax, out_messages, emitted,
                   unread, resets, replies, reads, held, all_metrics, host_sequence, transport, open_fds>>

InitShared == InitWith({<<>>})

NextShared == \E k \in HeldSlots : HeldRequest(k) \/ HeldStore(k) \/ HeldBuild(k)

SpecShared == InitShared /\ [][NextShared]_vars

(***************************************************************************)
(* Bytes of any kind fed to a fresh parser one at a time: every string of  *)
(* at most MaxArbitrary bytes over BoundByte, alone or behind the start of *)
(* a frame, a frame with the longest payload there is, intact or with its  *)
(* last byte changed, and headers that declare more than that.             *)
(***************************************************************************)
MaxArbitrary == 3

BoundByte == {0, 1, 16, 85, 170}

Arbitrary == UNION {[1..n -> BoundByte] : n \in 0..MaxArbitrary}

\* nothing; AA 55; a header up to LENGTH_LO and up to SEQUENCE for LENGTH 1; a
\* header that declares 4096; one payload byte short of LENGTH 2
BoundHeads ==
    {<<>>, <<170, 85>>, <<170, 85, 0, 1>>, <<170, 85, 0, 1, 1, 5>>,
     <<170, 85, 16, 0, 1, 5>>, <<170, 85, 0, 2, 1, 5, 0>>}

LongestFrame ==
    LET built == devproto_frame_build(
                     Message(1, 5, DEVPROTO_MAX_PAYLOAD_SIZE,
                             Own([i \in 1..DEVPROTO_MAX_PAYLOAD_SIZE |-> 7])),
                     Own([i \in 1..DEVPROTO_MAX_FRAME_SIZE |-> 0]), DEVPROTO_MAX_FRAME_SIZE)
    IN SubSeq(built.bytes, 1, built.ret)

\* 0x1001 = 4097 and 0xFFFF declared
LongStreams ==
    {LongestFrame \o <<170>>,
     Corrupt(LongestFrame, DEVPROTO_MAX_FRAME_SIZE - 1, 255) \o <<170>>,
     <<170, 85, 16, 1, 1, 5, 0>>,
     <<170, 85, 255, 255, 170>>}

InitBound ==
    InitWith({<<Noise(h \o a)>> : h \in BoundHeads, a \in Arbitrary \ {<<>>}}
             \cup {<<Noise(s)>> : s \in LongStreams})

SpecBound == InitBound /\ [][NextBytes]_vars

(***************************************************************************)
(* The calls of SpecCalls on a fresh parser and on one whose counters all  *)
(* stand at 2^32 - 1.                                                      *)
(***************************************************************************)
AgreeParsers ==
    {devproto_frame_parser_init,
     [devproto_frame_parser_init EXCEPT !.frames_parsed = UINT32_MAX,
                                        !.crc_errors = UINT32_MAX,
                                        !.sync_errors = UINT32_MAX]}

InitAgree == InitFrom(AgreeParsers, CallPlans)

SpecAgree == InitAgree /\ [][Next]_vars

(***************************************************************************)
(* The host of examples/host_client.c running test_ping up to MaxPings     *)
(* times.  The peer answers a ping at any time after it was sent, also     *)
(* after the host has given up on it, and sends an event whenever it       *)
(* likes; a read hands the host any number of the bytes that have arrived, *)
(* or none within its 100 ms.                                              *)
(***************************************************************************)
MaxPings == 2

DEVPROTO_MSG_ALERT_EVENT == 161

\* timeout_ms / 100: the rounds of the receive loop
TimeoutRounds == 50

\* A send_and_receive call has sent its request and has not returned.
Waiting == call.fn = "send_and_receive" /\ result = NoCall

\* What test_ping makes of a send_and_receive that returned ret with response.
test_ping(ret_value, response) ==
    IF ret_value # 0 THEN -1
    ELSE IF response.msg_type # DEVPROTO_MSG_PONG THEN -1
    ELSE 0

\* test_ping up to the receive loop of send_and_receive: the next sequence
\* number, the request built and handed to the transport, the parser reset.
TestPing ==
    /\ ~Waiting
    /\ host_sequence < MaxPings
    /\ \E stale \in StaleByte, sent \in BOOLEAN :
         \E request \in {devproto_create_ping(Message(0, 0, 0, NULL), (host_sequence + 1) % 256)} :
         \E built \in {devproto_frame_build(request,
                                            Own([i \in 1..DEVPROTO_MAX_FRAME_SIZE |-> stale]),
                                            DEVPROTO_MAX_FRAME_SIZE)} :
             /\ call' = [fn |-> "send_and_receive", request |-> request]
             /\ ret' = built.ret
             /\ IF built.ret < 0 \/ ~sent
                THEN /\ result' = [ret |-> -1, test_ping |-> -1]
                     /\ UNCHANGED <<parser, replies, transport, open_fds>>
                ELSE /\ result' = NoCall
                     /\ parser' = devproto_frame_parser_reset(parser)
                     /\ replies' = Append(replies, SubSeq(built.bytes, 1, built.ret))
    /\ host_sequence' = (host_sequence + 1) % 256
    /\ reads' = 0
    /\ lastop' = "test_ping"
    /\ lastlen' = 0
    /\ lastmax' = 0
    /\ UNCHANGED <<wire, plan, txlog, out_messages, emitted, unread, resets, held, all_metrics, transport, open_fds>>

\* One round of the receive loop: devproto_transport_recv returns none of
\* the bytes that have arrived, the first of them or all of them; with n > 0
\* they are parsed for one message.
HostRecv ==
    /\ Waiting
    /\ \E n \in {m \in {0, 1, Len(wire)} : m <= Len(wire) /\ m <= RxBufferSize} :
         \E r \in {devproto_frame_parse(parser, Own(SubSeq(wire, 1, n)), 1)} :
             /\ parser' = IF n > 0 THEN r.p ELSE parser
             /\ ret' = IF n > 0 THEN r.ret ELSE 0
             /\ out_messages' = IF n > 0 THEN r.out ELSE out_messages
             /\ unread' = IF n > 0 THEN unread + (n - r.read) ELSE unread
             /\ wire' = SubSeq(wire, n + 1, Len(wire))
             /\ lastlen' = n
             /\ IF n > 0 /\ r.ret > 0
                THEN /\ result' = [ret |-> 0,
                                   response |-> Delivered(r.out[1], PayloadBytes(r.out[1], r.p)),
                                   test_ping |-> test_ping(0, r.out[1])]
                     /\ emitted' = Append(emitted,
                                          Delivered(r.out[1], PayloadBytes(r.out[1], r.p)))
                     /\ reads' = reads
                ELSE /\ result' = IF reads + 1 < TimeoutRounds THEN NoCall
                                  ELSE [ret |-> -1, test_ping |-> -1]
                     /\ emitted' = emitted
                     /\ reads' = reads + 1
    /\ lastmax' = 1
    /\ lastop' = "recv"
    /\ UNCHANGED <<plan, txlog, resets, call, replies, held, all_metrics, host_sequence, transport, open_fds>>

\* devproto_transport_recv reports an error.
HostRecvError ==
    /\ Waiting
    /\ result' = [ret |-> -1, test_ping |-> -1]
    /\ lastop' = "recv_error"
    /\ UNCHANGED <<parser, wire, plan, txlog, ret, lastlen, lastmax, out_messages, emitted,
                   unread, resets, call, replies, reads, held, all_metrics, host_sequence, transport, open_fds>>

\* The peer puts its next frame on the line: an event, or the response to a
\* request that has been sent.
PeerSend ==
    /\ plan # <<>>
    /\ \/ Head(plan).msg.msg_type = DEVPROTO_MSG_ALERT_EVENT
       \/ \E i \in 1..Len(replies) : replies[i][6] = Head(plan).msg.sequence
    /\ Send

HostPlans ==
    {<<Frame(devproto_create_pong(Message(0, 0, 0, NULL), 1)),
       Frame(devproto_create_pong(Message(0, 0, 0, NULL), 2))>>,
     <<Frame(Message(DEVPROTO_MSG_ALERT_EVENT, 0, 0, NULL)),
       Frame(devproto_create_pong(Message(0, 0, 0, NULL), 1))>>}

InitHost == InitWith(HostPlans)

NextHost == TestPing \/ HostRecv \/ HostRecvError \/ PeerSend

SpecHost == InitHost /\ [][NextHost]_vars

(***************************************************************************)
(* A transport from devproto_transport_tcp_create, opened, used, closed    *)
(* and destroyed by its owner in any order, over a network that refuses or *)
(* accepts a connection and a peer that may close it.                      *)
(***************************************************************************)
MaxAddrs == 2

\* What happens at the addresses of one tcp_open call.
AddressOutcomes ==
    UNION {[1..n -> {"nosocket", "refused", "connected"}] : n \in 0..MaxAddrs}

TransportOpen ==
    /\ ~transport.freed
    /\ \E outcomes \in AddressOutcomes :
         \E r \in {tcp_open(transport, open_fds, outcomes)} :
             /\ transport' = r.t
             /\ open_fds' = r.fds
             /\ ret' = r.ret
    /\ lastop' = "open"
    /\ UNCHANGED <<parser, wire, plan, txlog, lastlen, lastmax, out_messages, emitted, unread,
                   resets, call, result, replies, reads, held, all_metrics, host_sequence>>

TransportClose ==
    /\ ~transport.freed
    /\ \E r \in {tcp_close(transport, open_fds)} :
             /\ transport' = r.t
             /\ open_fds' = r.fds
    /\ lastop' = "close"
    /\ UNCHANGED <<parser, wire, plan, txlog, ret, lastlen, lastmax, out_messages, emitted,
                   unread, resets, call, result, replies, reads, held, all_metrics,
                   host_sequence>>

TransportSend ==
    /\ ~transport.freed
    /\ \E sent \in {-1, DEVPROTO_MIN_FRAME_SIZE} :
         ret' = tcp_send(transport, DEVPROTO_MIN_FRAME_SIZE, sent)
    /\ lastop' = "send"
    /\ UNCHANGED <<parser, wire, plan, txlog, lastlen, lastmax, out_messages, emitted, unread,
                   resets, call, result, replies, reads, held, all_metrics, host_sequence,
                   transport, open_fds>>

TransportRecv ==
    /\ ~transport.freed
    /\ \E got \in {"error", "timeout", "closed", "bytes"}, n \in {1, DEVPROTO_MIN_FRAME_SIZE} :
         \E r \in {tcp_recv(transport, got, n)} :
             /\ transport' = r.t
             /\ ret' = r.ret
    /\ lastop' = "recv"
    /\ UNCHANGED <<parser, wire, plan, txlog, lastlen, lastmax, out_messages, emitted, unread,
                   resets, call, result, replies, reads, held, all_metrics, host_sequence,
                   open_fds>>

TransportDestroy ==
    /\ ~transport.freed
    /\ \E r \in {devproto_transport_destroy(transport, open_fds)} :
             /\ transport' = r.t
             /\ open_fds' = r.fds
    /\ lastop' = "destroy"
    /\ UNCHANGED <<parser, wire, plan, txlog, ret, lastlen, lastmax, out_messages, emitted,
                   unread, resets, call, result, replies, reads, held, all_metrics,
                   host_sequence>>

InitTcp == InitWith({<<>>})

NextTcp ==
    TransportOpen \/ TransportClose \/ TransportSend \/ TransportRecv \/ TransportDestroy

SpecTcp == InitTcp /\ [][NextTcp]_vars

(***************************************************************************)
(* What the claims speak of                                                *)
(***************************************************************************)
\* The i-th segment put on the line is a frame that nothing changed.
Intact(i) == txlog[i].t = "frame" /\ txlog[i].mask = 0

\* The message of the i-th segment, as a receiver should get it.
Orig(i) == Delivered(txlog[i].msg, PayloadBytes(txlog[i].msg, devproto_frame_parser_init))

\* The line carried one intact frame, all of it is sent, nobody reset the parser.
OneFrame == plan = <<>> /\ Len(txlog) = 1 /\ Intact(1) /\ ~resets

\* C1: frame round-trip: the bytes devproto_frame_build writes for a message,
\* fed to a fresh parser, give exactly one completed message, with the
\* original msg_type, sequence, payload_len and payload bytes, at the last
\* byte and not before, and no byte is answered with an error.
C1_FrameRoundTrip ==
    OneFrame =>
        /\ emitted = IF wire = <<>> THEN <<Orig(1)>> ELSE <<>>
        /\ lastop \in {"parse_byte", "parse"} => ret >= 0
        /\ Val32(parser.crc_errors) = 0
        /\ Val32(parser.sync_errors) = 0
        /\ Val32(parser.frames_parsed) = Len(emitted)

C1_Witness ==
    /\ OneFrame /\ wire = <<>> /\ lastop = "parse_byte"
    /\ emitted = <<Orig(1)>>
    /\ txlog[1].msg.payload_len = MaxLen

\* C2: partial delivery: however the bytes of a built frame are cut into
\* non-empty chunks for successive devproto_frame_parse calls on one parser,
\* the calls before the last return 0, the last returns 1, and the message,
\* its payload bytes and the parser are those that one call with the whole
\* frame gives.
C2_PartialDelivery ==
    (OneFrame /\ lastop = "parse") =>
        LET whole == devproto_frame_parse(devproto_frame_parser_init,
                                          Own(txlog[1].bytes), lastmax)
        IN  IF wire = <<>>
            THEN /\ whole.ret = 1 /\ ret = 1
                 /\ out_messages = whole.out
                 /\ PayloadBytes(out_messages[1], parser) = whole.done[1]
                 /\ emitted = <<Delivered(whole.out[1], whole.done[1])>>
                 /\ parser = whole.p
            ELSE ret = 0 /\ emitted = <<>>

C2_Witness ==
    /\ OneFrame /\ lastop = "parse" /\ wire = <<>> /\ ret = 1
    /\ lastlen = 1
    /\ txlog[1].msg.payload_len > 0

\* C10: byte-by-byte feeding: for a valid frame of n bytes fed one byte at a
\* time, devproto_frame_parse_byte returns 0 for each of the first n-1 bytes
\* and 1 for the n-th, and devproto_frame_get_message then succeeds and
\* reports the frame's kind.
C10_ByteByByte ==
    (OneFrame /\ lastop = "parse_byte") =>
        /\ ret = IF wire = <<>> THEN 1 ELSE 0
        /\ wire = <<>> =>
              LET g == devproto_frame_get_message(parser, Message(0, 0, 0, NULL))
              IN  g.ret = 0 /\ g.msg.msg_type = txlog[1].msg.msg_type

C10_Witness ==
    /\ OneFrame /\ lastop = "parse_byte" /\ wire = <<>> /\ ret = 1
    /\ txlog[1].msg.msg_type = 129
    /\ Val32(parser.frames_parsed) = 1

\* The bytes put on the line, and the messages of the frames among them.
RECURSIVE Stream(_)
Stream(log) == IF log = <<>> THEN <<>> ELSE Head(log).bytes \o Stream(Tail(log))

RECURSIVE Frames(_)
Frames(log) ==
    IF log = <<>> THEN <<>>
    ELSE (IF Head(log).t = "frame"
          THEN <<Delivered(Head(log).msg,
                           PayloadBytes(Head(log).msg, devproto_frame_parser_init))>>
          ELSE <<>>) \o Frames(Tail(log))

\* All of the plan went over the line and through the parser, none of it left
\* unread by a devproto_frame_parse call, and nobody reset the parser.
AllFed == plan = <<>> /\ wire = <<>> /\ unread = 0 /\ ~resets

NoSyncPair(g) ==
    \A i \in 1..(Len(g) - 1) :
        ~(g[i] = DEVPROTO_HEADER_BYTE0 /\ g[i + 1] = DEVPROTO_HEADER_BYTE1)

\* C3 as stated: K valid frames with arbitrary non-frame bytes before, between
\* and after them give exactly K messages, in the order of the frames.
C3_Original == AllFed => emitted = Frames(txlog)

\* C3, amended: K valid frames with non-frame bytes before, between and after
\* them, where no run of non-frame bytes holds the sync pair AA 55, give
\* exactly K messages, in the order of the frames.
C3_GarbageTolerance ==
    (AllFed /\ \A i \in 1..Len(txlog) : txlog[i].t = "noise" => NoSyncPair(txlog[i].bytes))
        => emitted = Frames(txlog)

C3_Witness ==
    /\ AllFed /\ Len(txlog) = 5
    /\ txlog[1].bytes = <<18, 52, 86, 170, 0, 170>>
    /\ txlog[3].bytes = <<85, 170>>
    /\ txlog[5].bytes = <<170>>
    /\ emitted = Frames(txlog) /\ Len(emitted) = 2
    /\ Val32(parser.sync_errors) = 1

\* C4 as stated: a frame with one corrupted byte in any field, immediately
\* followed by a valid frame: the second frame is emitted.
C4_Original ==
    (AllFed /\ Len(txlog) = 2) => \E i \in 1..Len(emitted) : emitted[i] = Orig(2)

\* C4, amended: a frame with one corrupted byte in its type, sequence, payload
\* or CRC field, immediately followed by a valid frame: the second frame is
\* emitted.
C4_CorruptThenGood ==
    (AllFed /\ Len(txlog) = 2 /\ txlog[1].pos >= 4)
        => \E i \in 1..Len(emitted) : emitted[i] = Orig(2)

C4_Witness ==
    /\ AllFed /\ Len(txlog) = 2
    /\ txlog[1].pos = 4 /\ txlog[1].mask = 255
    /\ emitted = <<Orig(2)>>
    /\ txlog[2].msg.payload_len = 1

\* C5: a buffer of K back-to-back valid frames, one devproto_frame_parse call
\* with max_messages >= K: the call returns K and out_messages[i] has the
\* msg_type and sequence of the i-th frame.
C5_Ordering ==
    (/\ plan = <<>> /\ ~resets
     /\ \A i \in 1..Len(txlog) : Intact(i)
     /\ lastop = "parse" /\ lastlen = Len(Stream(txlog)) /\ lastmax >= Len(txlog))
        => /\ ret = Len(txlog)
           /\ Len(out_messages) = Len(txlog)
           /\ \A i \in 1..Len(txlog) :
                  /\ out_messages[i].msg_type = txlog[i].msg.msg_type
                  /\ out_messages[i].sequence = txlog[i].msg.sequence

C5_Witness ==
    /\ plan = <<>> /\ Len(txlog) = 2 /\ Intact(1) /\ Intact(2)
    /\ lastop = "parse" /\ lastlen = Len(Stream(txlog)) /\ lastmax >= 2
    /\ ret = 2
    /\ out_messages[1].sequence = 1 /\ out_messages[2].sequence = 6

\* One frame went over the line with one bit of one byte flipped.
BitFlipped == plan = <<>> /\ Len(txlog) = 1 /\ txlog[1].mask \in BitMasks /\ ~resets

\* The parser is looking for a sync pair, or has counted a sync error.
Resynced == Val32(parser.sync_errors) >= 1 \/ parser.state \in {"IDLE", "HEADER_LO"}

\* C6 as stated: after any single-bit flip, the frame fed to a fresh parser
\* either increments crc_errors by 1 or causes a resync, and no message is
\* emitted from the corrupted frame.
C6_Original ==
    (BitFlipped /\ wire = <<>> /\ unread = 0)
        => /\ Val32(parser.crc_errors) = 1 \/ Resynced
           /\ emitted = <<>>

\* C6, amended: a single-bit flip in the type, sequence, payload or CRC bytes
\* increments crc_errors by exactly 1 and no message is emitted; after a flip
\* in a sync or length byte the parser may end with no counter changed, and
\* a message it emits has a shorter payload than the original: the original
\* (kind, seq, payload) is never emitted.
C6_BitFlip ==
    (BitFlipped /\ wire = <<>> /\ unread = 0)
        => /\ \A i \in 1..Len(emitted) :
                  /\ emitted[i] # Orig(1)
                  /\ emitted[i].payload_len < txlog[1].msg.payload_len
           /\ txlog[1].pos >= 4 =>
                  /\ Val32(parser.crc_errors) = 1
                  /\ emitted = <<>>
                  /\ Val32(parser.frames_parsed) = 0
                  /\ Val32(parser.sync_errors) = 0
                  /\ lastop = "parse_byte" => ret = DEVPROTO_FRAME_ERR_CRC

C6_Witness ==
    /\ BitFlipped /\ wire = <<>> /\ unread = 0
    /\ txlog[1].msg = OneByteMsg /\ txlog[1].pos = 6 /\ txlog[1].mask = 128
    /\ Val32(parser.crc_errors) = 1 /\ emitted = <<>>

\* The byte about to be fed completes a frame whose received CRC is not the
\* CRC of the header and payload in the buffer.
CrcMismatch ==
    /\ parser.state = "CRC_LO" /\ wire # <<>>
    /\ BitOr(parser.crc_received, Head(wire))
           # devproto_crc16(BufRange(parser.buffer, 0,
                                     DEVPROTO_HEADER_SIZE + parser.expected_length))

\* The PING of the tests, its last byte XORed with 0xFF, all in one
\* devproto_frame_parse call.
BadPingParsed ==
    /\ plan = <<>> /\ Len(txlog) = 1 /\ txlog[1].msg = PingMsg
    /\ txlog[1].pos = 7 /\ txlog[1].mask = 255
    /\ lastop = "parse" /\ lastlen = 8

\* C7: the parse_byte call that completes a frame whose received CRC differs
\* from the computed one returns DEVPROTO_FRAME_ERR_CRC, adds exactly 1 to
\* crc_errors, leaves frames_parsed alone and emits no message; the PING with
\* its last byte XORed with 0xFF gives crc_errors = 1 and devproto_frame_parse
\* returns 0.
C7_CrcRejected ==
    [][/\ (CrcMismatch /\ lastop' = "parse_byte")
            => /\ ret' = DEVPROTO_FRAME_ERR_CRC
               /\ Val32(parser'.crc_errors) = Val32(parser.crc_errors) + 1
               /\ Val32(parser'.frames_parsed) = Val32(parser.frames_parsed)
               /\ emitted' = emitted
       /\ BadPingParsed' => (ret' = 0 /\ Val32(parser'.crc_errors) = 1 /\ emitted' = <<>>)]_vars

C7_Witness ==
    /\ plan = <<>> /\ Len(txlog) = 1 /\ txlog[1].msg = PingMsg
    /\ txlog[1].pos = 7 /\ txlog[1].mask = 255
    /\ lastop = "parse_byte" /\ wire = <<>>
    /\ ret = DEVPROTO_FRAME_ERR_CRC
    /\ Val32(parser.crc_errors) = 1 /\ Val32(parser.frames_parsed) = 0 /\ emitted = <<>>

\* C8: after parse_byte returns DEVPROTO_FRAME_ERR_CRC the parser is in IDLE
\* with no frame in progress, and a valid frame that follows the bad CRC
\* immediately is emitted.
C8_CrcDiscardsOneFrame ==
    /\ (lastop = "parse_byte" /\ ret = DEVPROTO_FRAME_ERR_CRC)
          => /\ parser.state = "IDLE"
             /\ parser.buffer_pos = 0
             /\ parser.expected_length = 0
             /\ parser.payload_received = 0
             /\ parser.msg_type = 0
             /\ parser.sequence = 0
             /\ parser.crc_received = 0
    /\ (plan = <<>> /\ ~resets /\ unread = 0 /\ Len(txlog) = 2 /\ txlog[1].pos >= 4)
          => /\ (lastop = "parse_byte" /\ wire = txlog[2].bytes)
                    => ret = DEVPROTO_FRAME_ERR_CRC
             /\ wire = <<>>
                    => /\ emitted = <<Orig(2)>>
                       /\ Val32(parser.crc_errors) = 1
                       /\ Val32(parser.frames_parsed) = 1

C8_Witness ==
    /\ AllFed /\ Len(txlog) = 2
    /\ txlog[1].msg = OneByteMsg /\ txlog[1].pos = 8 /\ txlog[1].mask = 1
    /\ lastop = "parse_byte"
    /\ emitted = <<Orig(2)>>
    /\ Val32(parser.crc_errors) = 1

\* The byte about to be fed is the low length byte, and the length it
\* completes is above DEVPROTO_MAX_PAYLOAD_SIZE.
Oversize ==
    /\ parser.state = "LENGTH_LO" /\ wire # <<>>
    /\ BitOr(parser.expected_length, Head(wire)) > DEVPROTO_MAX_PAYLOAD_SIZE

\* C9: when the two length bytes declare more than 4096, the parse_byte call
\* for the low length byte returns DEVPROTO_FRAME_ERR_OVERFLOW, sync_errors
\* grows by at least 1, the parser is back in IDLE with nothing of a payload
\* buffered, and the next byte starts a new sync search.
C9_OversizeRejected ==
    [][(Oversize /\ lastop' = "parse_byte")
            => /\ ret' = DEVPROTO_FRAME_ERR_OVERFLOW
               /\ Val32(parser'.sync_errors) >= Val32(parser.sync_errors) + 1
               /\ parser'.state = "IDLE"
               /\ parser'.buffer_pos = 0
               /\ parser'.payload_received = 0
               /\ parser'.expected_length = 0
               /\ \A i \in DEVPROTO_HEADER_SIZE..(Len(parser'.buffer) + 1) :
                      BufAt(parser'.buffer, i) = BufAt(parser.buffer, i)
               /\ Val32(parser'.frames_parsed) = Val32(parser.frames_parsed)
               /\ emitted' = emitted]_vars

C9_Witness ==
    /\ plan = <<>> /\ Len(txlog) = 1 /\ txlog[1].msg = OneByteMsg
    /\ txlog[1].pos = 2 /\ txlog[1].mask = 16
    /\ lastop = "parse_byte" /\ ret = DEVPROTO_FRAME_ERR_OVERFLOW
    /\ Len(wire) = FrameLen(OneByteMsg) - 4
    /\ parser.state = "IDLE" /\ Val32(parser.sync_errors) = 1

\* C11: after devproto_frame_parse returns count >= 1, the payload pointer of
\* out_messages[count-1] still reads the payload bytes of the last frame the
\* call completed, whatever bytes followed that frame in the same call.
C11_PayloadView ==
    (lastop = "parse" /\ ret >= 1)
        => PayloadBytes(out_messages[ret], parser) = emitted[Len(emitted)].payload

\* C12: over any sequence of devproto_frame_parse_byte, devproto_frame_parse,
\* devproto_frame_get_message and devproto_frame_parser_reset calls, none of
\* frames_parsed, crc_errors, sync_errors ever decreases.
C12_CounterMonotonic ==
    [][/\ Le32(parser.frames_parsed, parser'.frames_parsed)
       /\ Le32(parser.crc_errors, parser'.crc_errors)
       /\ Le32(parser.sync_errors, parser'.sync_errors)]_vars

\* The index in s of the first 0xAA that a 0x55 follows (Len(s) if none), and
\* the bytes before it: what the parser discards before its first sync pair.
FirstSync(s) ==
    LET at == {i \in 1..(Len(s) - 1) :
                 s[i] = DEVPROTO_HEADER_BYTE0 /\ s[i + 1] = DEVPROTO_HEADER_BYTE1}
    IN  IF at = {} THEN Len(s) ELSE CHOOSE i \in at : \A j \in at : i <= j

Prefix(s) == SubSeq(s, 1, FirstSync(s) - 1)

\* The 0xAA of g that a byte other than 0xAA follows.
FalseStarts(g) ==
    Cardinality({i \in 1..(Len(g) - 1) :
                   g[i] = DEVPROTO_HEADER_BYTE0 /\ g[i + 1] # DEVPROTO_HEADER_BYTE0})

\* The parser has just taken the 0x55 of the first sync pair of the line.
FirstPairTaken ==
    /\ plan = <<>> /\ unread = 0 /\ txlog # <<>>
    /\ Len(Stream(txlog)) - Len(wire) = FirstSync(Stream(txlog)) + 1

\* The line carried 12 34 AA AA 55 00 00 01 05 crc AA 55 00 00 81 05 crc and
\* the parser has consumed all of it.
TwoKindsFed ==
    /\ AllFed /\ Len(txlog) = 3 /\ txlog[1].bytes = <<18, 52, 170>>

\* C13 as stated: sync_errors grows by the number of bytes discarded before the
\* first accepted sync pair, and is at least 2 after the stream 12 34 AA AA 55
\* 00 00 01 05 crc AA 55 00 00 81 05 crc.
C13_Original ==
    /\ FirstPairTaken => Val32(parser.sync_errors) = Len(Prefix(Stream(txlog)))
    /\ TwoKindsFed => Val32(parser.sync_errors) >= 2

\* C13, amended: sync_errors grows by one for each 0xAA before the first
\* accepted sync pair that a byte other than 0xAA follows; the other discarded
\* bytes are not counted; after the stream 12 34 AA AA 55 00 00 01 05 crc
\* AA 55 00 00 81 05 crc both messages are out and sync_errors is 0.
C13_SyncErrors ==
    /\ FirstPairTaken
         => /\ Val32(parser.sync_errors) = FalseStarts(Prefix(Stream(txlog)))
            /\ parser.state = "LENGTH_HI"
    /\ TwoKindsFed
         => /\ Val32(parser.sync_errors) = 0
            /\ emitted = <<Delivered(Message(1, 5, 0, NULL), <<>>),
                           Delivered(Message(129, 5, 0, NULL), <<>>)>>

C13_Witness ==
    /\ FirstPairTaken
    /\ Len(Prefix(Stream(txlog))) = 3
    /\ Val32(parser.sync_errors) = 1
    /\ lastop = "parse_byte"

\* C14: devproto_frame_parser_reset, called in any parser state, leaves the
\* parser in IDLE with buffer_pos, expected_length and payload_received 0, and
\* leaves frames_parsed, crc_errors and sync_errors as they were.
C14_ResetDiscards ==
    [][lastop' = "reset"
         => /\ parser'.state = "IDLE"
            /\ parser'.buffer_pos = 0
            /\ parser'.expected_length = 0
            /\ parser'.payload_received = 0
            /\ parser'.frames_parsed = parser.frames_parsed
            /\ parser'.crc_errors = parser.crc_errors
            /\ parser'.sync_errors = parser.sync_errors]_vars

\* A reset with the last two bytes of a frame still on the line, after a false
\* start and a CRC error were counted.
C14_Witness ==
    /\ lastop = "reset" /\ plan = <<>> /\ unread = 0
    /\ Len(txlog) = 3 /\ Len(wire) = 2
    /\ parser.state = "IDLE"
    /\ Val32(parser.sync_errors) = 1 /\ Val32(parser.crc_errors) = 1

\* The last call was devproto_frame_build; its arguments were all there and
\* the frame fits (BuildFits), or one of the four failure conditions held.
BuildCall == call.fn = "devproto_frame_build"

BuildInvalid == BuildCall /\ (call.msg = NULL \/ call.buffer = NULL)

BuildOverflow ==
    /\ BuildCall /\ ~BuildInvalid
    /\ \/ call.msg.payload_len > DEVPROTO_MAX_PAYLOAD_SIZE
       \/ call.buf_size < DEVPROTO_MIN_FRAME_SIZE + call.msg.payload_len

BuildFits == BuildCall /\ ~BuildInvalid /\ ~BuildOverflow

\* C15: for every message with payload_len <= 4096 and a buffer of at least
\* 8 + payload_len bytes, devproto_frame_build returns 8 + payload_len and the
\* buffer then holds AA 55, the length high byte first, type, sequence, the
\* payload bytes, and the CRC-16 of all bytes before it, high byte first; the
\* bytes of the buffer from index 8 + payload_len on are as they were.
C15_BuilderOutput ==
    BuildFits =>
        LET msg == call.msg
            n   == call.msg.payload_len
            out == result.bytes
        IN  /\ result.ret = 8 + n
            /\ Len(out) = Len(call.buffer.bytes)
            /\ SubSeq(out, 1, 6) = <<170, 85, n \div 256, n % 256, msg.msg_type, msg.sequence>>
            /\ msg.payload # NULL => SubSeq(out, 7, 6 + n) = SubSeq(msg.payload.bytes, 1, n)
            /\ \E crc \in {devproto_crc16(SubSeq(out, 1, 6 + n))} :
                 SubSeq(out, 7 + n, 8 + n) = <<crc \div 256, crc % 256>>
            /\ \A i \in (9 + n)..Len(out) : out[i] = call.buffer.bytes[i]

\* A two-byte payload built into an array of 0xFF with buf_size exactly 10.
C15_Witness ==
    /\ BuildFits /\ result.ret = 10 /\ call.buf_size = 10
    /\ call.msg.payload # NULL
    /\ call.buffer.bytes[11] = 255 /\ result.bytes[11] = 255
    /\ SubSeq(result.bytes, 7, 8) = <<0, 170>>

\* C16: with msg or buffer NULL, payload_len > 4096 or buf_size < 8 +
\* payload_len, devproto_frame_build returns a negative value and every byte of
\* the buffer is as it was before the call.
C16_BuilderFailFast ==
    (BuildInvalid \/ BuildOverflow)
        => /\ result.ret < 0
           /\ result.bytes = IF call.buffer = NULL THEN <<>> ELSE call.buffer.bytes

\* A buffer one byte too short for the frame of a one-byte payload.
C16_Witness ==
    /\ BuildOverflow /\ call.msg.payload_len = 1 /\ call.buf_size = 8
    /\ result.ret < 0 /\ result.bytes = call.buffer.bytes

\* C17 as stated: an oversize payload or a too-small buffer gets another return
\* value than a NULL argument, and neither value is DEVPROTO_FRAME_ERR_CRC.
C17_Original ==
    /\ (BuildInvalid \/ BuildOverflow) => result.ret # DEVPROTO_FRAME_ERR_CRC
    /\ BuildOverflow
         => result.ret # devproto_frame_build(NULL, call.buffer, call.buf_size).ret

\* C17, amended: devproto_frame_build gives an oversize payload, a too-small
\* buffer and a NULL argument the same return value, -1, which is the value of
\* DEVPROTO_FRAME_ERR_CRC.
C17_BuilderErrorsBundled ==
    (BuildInvalid \/ BuildOverflow)
        => /\ result.ret = -1
           /\ result.ret = DEVPROTO_FRAME_ERR_CRC
           /\ result.ret = devproto_frame_build(NULL, call.buffer, call.buf_size).ret

\* A payload_len of 4097 with message and buffer present and room for 16 bytes.
C17_Witness ==
    /\ BuildOverflow /\ call.msg.payload_len = DEVPROTO_MAX_PAYLOAD_SIZE + 1
    /\ call.buf_size = TxBufSize
    /\ result.ret = -1

\* The last devproto_frame_parse_byte call returned 1 and the parser has seen
\* neither a byte nor a reset since, only devproto_frame_get_message calls.
Completed ==
    \/ lastop = "parse_byte" /\ ret = 1
    \/ lastop = "get_message" /\ ret = 0

\* What the caller's message holds before the call.
Sentinel == Message(7, 7, 7, Own(<<7>>))

\* C18: devproto_frame_get_message returns 0 exactly when the last
\* devproto_frame_parse_byte call returned 1 with no byte and no reset since,
\* and then gives the message of the frame just completed; otherwise it returns
\* -1 and the caller's message is as it was.  It never changes the parser, and
\* a second call gives the same message.
C18_GetMessage ==
    [][lastop' = "get_message"
         => LET g == devproto_frame_get_message(parser, Sentinel)
            IN  /\ parser' = parser
                /\ ret' = g.ret
                /\ (g.ret = 0) <=> Completed
                /\ g.ret # 0 => (g.ret = -1 /\ g.msg = Sentinel /\ out_messages' = out_messages)
                /\ g.ret = 0
                     => /\ emitted # <<>>
                        /\ Delivered(g.msg, PayloadBytes(g.msg, parser)) = emitted[Len(emitted)]
                        /\ out_messages' = <<g.msg>>
                        /\ (lastop = "get_message" => out_messages' = out_messages)]_vars

\* The message of a frame with one payload byte, fetched after the byte that
\* completed it.
C18_Witness ==
    /\ lastop = "get_message" /\ ret = 0
    /\ parser.state = "COMPLETE"
    /\ out_messages = <<Message(129, 5, 1, VIEW)>>
    /\ PayloadBytes(out_messages[1], parser) = <<170>>

\* The line carried one intact frame with length 0, all of it is sent, and
\* nobody reset the parser.
ZeroLenFrame == OneFrame /\ txlog[1].msg.payload_len = 0

\* C19: a frame AA 55 00 00 type seq crc is eight bytes; the parser is in
\* SEQUENCE after the fifth, in CRC_HI after the sixth and never in PAYLOAD;
\* nothing is out before the eighth byte, which completes the frame: one
\* message with payload_len 0 and a NULL payload, and frames_parsed = 1.
C19_LengthZero ==
    ZeroLenFrame =>
        LET msg  == txlog[1].msg
            none == Message(msg.msg_type, msg.sequence, 0, NULL)
        IN  /\ Len(txlog[1].bytes) = 8
            /\ SubSeq(txlog[1].bytes, 1, 6) = <<170, 85, 0, 0, msg.msg_type, msg.sequence>>
            /\ parser.state # "PAYLOAD"
            /\ Len(wire) = 3 => parser.state = "SEQUENCE"
            /\ Len(wire) = 2 => parser.state = "CRC_HI"
            /\ Len(wire) > 0 => (emitted = <<>> /\ Val32(parser.frames_parsed) = 0)
            /\ wire = <<>>
                 => /\ emitted = <<Delivered(none, <<>>)>>
                    /\ Val32(parser.frames_parsed) = 1
                    /\ lastop = "parse_byte"
                         => /\ ret = 1
                            /\ devproto_frame_get_message(parser, Sentinel)
                                 = [ret |-> 0, msg |-> none]
                    /\ lastop = "parse" => (ret = 1 /\ out_messages = <<none>>)

\* The eighth byte of the PING with sequence 1, fed by devproto_frame_parse_byte.
C19_Witness ==
    /\ ZeroLenFrame /\ txlog[1].msg = PingMsg
    /\ wire = <<>> /\ lastop = "parse_byte" /\ ret = 1
    /\ Val32(parser.frames_parsed) = 1

\* The last call was devproto_response_type with a request type in lo..hi.
ResponseOf(lo, hi) ==
    /\ call.fn = "devproto_response_type"
    /\ call.request_type >= lo /\ call.request_type <= hi

\* C20 as stated: for every request type R in 0x01..0x7F, R | 0x80 is a
\* response type and not an event type.
C20_Original ==
    ResponseOf(1, 127)
        => devproto_is_response(result.ret) /\ ~devproto_is_event(result.ret)

\* C20, amended: for every request type R in 0x01..0x1F,
\* devproto_response_type(R) = R | 0x80 = R + 0x80 is a response type and not
\* an event type; for R in 0x20..0x7F it is an event type and not a response
\* type.
C20_ResponseKind ==
    /\ ResponseOf(1, 127) => result.ret = call.request_type + 128
    /\ ResponseOf(1, 31)
         => devproto_is_response(result.ret) /\ ~devproto_is_event(result.ret)
    /\ ResponseOf(32, 127)
         => ~devproto_is_response(result.ret) /\ devproto_is_event(result.ret)

\* The response type of the largest request type that still has one: 0x1F.
C20_Witness == ResponseOf(31, 31) /\ result.ret = 159

\* The bytes of the caller that a constructor was handed, none for NULL.
Given(bytes) == IF bytes = NULL THEN <<>> ELSE bytes.bytes

\* The last call was devproto_create_command with a message to fill, and
\* params_len is the number of parameter bytes handed over.
CommandCreated ==
    /\ call.fn = "devproto_create_command" /\ call.msg # NULL
    /\ call.params_len = Len(Given(call.params))

\* C21: the message devproto_create_command leaves has type EXECUTE_COMMAND
\* (0x03), the sequence given, and as payload the byte cmd_type followed by the
\* parameter bytes.
C21_CommandPayload ==
    CommandCreated
        => /\ result.msg.msg_type = 3
           /\ result.msg.sequence = call.sequence
           /\ result.msg.payload_len = 1 + call.params_len
           /\ PayloadBytes(result.msg, devproto_frame_parser_init)
                = <<call.cmd_type>> \o Given(call.params)

\* The last call was devproto_create_metrics_request with a message to fill.
MetricsRequested == call.fn = "devproto_create_metrics_request" /\ call.msg # NULL

MetricsBuilt == call.fn = "devproto_metrics_build"

BuildGiven ==
    /\ MetricsBuilt
    /\ call.metrics # NULL
    /\ call.buffer # NULL
    /\ call.buf_size >= 5 * call.num_metrics

ParsedBack(max_metrics) ==
    devproto_metrics_parse(Own(result.bytes), result.ret, StaleMetrics(max_metrics),
                           max_metrics)

MetricsParsed == call.fn = "devproto_metrics_parse"

ParseGiven ==
    /\ MetricsParsed
    /\ call.metrics # NULL
    /\ call.max_metrics >= 1

C24_ZeroLength ==
    (ParseGiven /\ call.payload_len = 0) => result.ret = 0

\* C25: devproto_metrics_parse of payload_len > 0 bytes, given an array of at
\* least one element, returns the smaller of payload_len / 5 rounded down and
\* max_metrics; element i is the type code at byte 5i and the pattern of bytes
\* 5i+1..5i+4, most significant first; the elements behind the returned count
\* are untouched, so bytes behind the last whole record are never made a
\* record.
Least(a, b) == IF a <= b THEN a ELSE b

RecordAt(bytes, i) ==
    Metric(bytes[5 * i + 1],
           F32(bytes[5 * i + 2] * 256 + bytes[5 * i + 3],
               bytes[5 * i + 4] * 256 + bytes[5 * i + 5]))

C26_FloatRoundTrip ==
    /\ call.fn = "devproto_float_to_be" =>
         /\ Len(result.bytes) = 4
         /\ \A i \in 1..4 : result.bytes[i] \in Byte
         /\ result.bytes[1] * 256 + result.bytes[2] = call.value.hi
         /\ result.bytes[3] * 256 + result.bytes[4] = call.value.lo
         /\ devproto_float_from_be(result.bytes) = call.value
    /\ call.fn = "devproto_float_from_be" =>
         /\ result.value.hi = call.bytes[1] * 256 + call.bytes[2]
         /\ result.value.lo = call.bytes[3] * 256 + call.bytes[4]

\* The signalling NaN 0x7F800001 encoded.
C26_Witness ==
    /\ call.fn = "devproto_float_to_be"
    /\ call.value = F32(32640, 1)
    /\ result.bytes = <<127, 128, 0, 1>>
    /\ devproto_float_from_be(result.bytes) = F32(32640, 1)

\* C27: CRC streaming identity.  The CRC of a byte string equals, for every
\* split of it into a first and a second part (either may be empty), the
\* streaming update of the first part's CRC by the second part; the update
\* from 0xFFFF is the CRC itself; the CRC of no bytes is 0xFFFF.
C27_CrcStreaming ==
    /\ call.fn = "devproto_crc16" =>
         /\ call.data = <<>> => result.crc = 65535
         /\ \A k \in 0..Len(call.data) :
              devproto_crc16_update(devproto_crc16(SubSeq(call.data, 1, k)),
                                    SubSeq(call.data, k + 1, Len(call.data)))
                = result.crc
    /\ call.fn = "devproto_crc16_update" =>
         /\ call.crc = 65535 => result.crc = devproto_crc16(call.data)
         /\ \A head \in CrcHeads :
              call.crc = devproto_crc16(head) =>
                result.crc = devproto_crc16(head \o call.data)

\* The array of test_crc_streaming summed in one call; its split 6 + 5 agrees.
C27_Witness ==
    /\ call.fn = "devproto_crc16"
    /\ call.data = StreamingData
    /\ result.crc # 65535
    /\ devproto_crc16_update(devproto_crc16(SubSeq(StreamingData, 1, 6)),
                             SubSeq(StreamingData, 7, 11)) = result.crc

\* C28: CRC single-bit detection.  For an input of at most MaxFlipLen = 64
\* bytes, flipping any one bit of it gives an input with a different
\* devproto_crc16.
FlipBit(data, i, bit) == [data EXCEPT ![i] = BitXor(data[i], 2 ^ bit)]

C28_SingleBit ==
    (call.fn = "devproto_crc16" /\ Len(call.data) <= MaxFlipLen) =>
      \A i \in 1..Len(call.data), bit \in 0..7 :
        devproto_crc16(FlipBit(call.data, i, bit)) # result.crc

C28_Witness ==
    /\ call.fn = "devproto_crc16"
    /\ Len(call.data) = MaxFlipLen
    /\ call.data[1] # call.data[MaxFlipLen]
    /\ devproto_crc16(FlipBit(call.data, 1, 7)) # result.crc
    /\ devproto_crc16(FlipBit(call.data, MaxFlipLen, 0)) # result.crc

\* C29: a byte given to devproto_frame_parse_byte while the parser is in
\* COMPLETE or ERROR is handled as the IDLE state handles it, on the parser as
\* devproto_frame_parser_reset leaves it; two intact frames fed back to back
\* one byte at a time, with no reset by the caller, both complete (the call
\* returns 1 for each); and the parser is never in ERROR between two calls.
ByteAfterComplete ==
    (lastop' = "parse_byte" /\ wire' # wire /\ parser.state \in {"COMPLETE", "ERROR"})
        => /\ parser' = ParseIdle(devproto_frame_parser_reset(parser), Head(wire)).p
           /\ ret' = ParseIdle(devproto_frame_parser_reset(parser), Head(wire)).ret

BothFed ==
    /\ plan = <<>> /\ wire = <<>> /\ ~resets
    /\ Len(txlog) = 2 /\ Intact(1) /\ Intact(2)

BackToBack ==
    /\ parser.state # "ERROR"
    /\ BothFed => /\ emitted = Frames(txlog)
                  /\ Val32(parser.frames_parsed) = 2
                  /\ parser.state = "COMPLETE"
                  /\ ret = 1

C29_ByteNotLost == [][ByteAfterComplete]_vars /\ []BackToBack

C29_Witness ==
    /\ BothFed
    /\ lastop = "parse_byte"
    /\ Len(emitted) = 2
    /\ emitted[1].msg_type # emitted[2].msg_type
    /\ parser.state = "COMPLETE"

\* C30: resynchronisation in HEADER_LO.  A byte given to
\* devproto_frame_parse_byte in HEADER_LO: a second 0xAA leaves the parser in
\* HEADER_LO at the start of a frame and counts nothing; 0x55 moves it to
\* LENGTH_HI; any other byte returns it to IDLE and raises sync_errors by
\* exactly 1.  So the stream 12 34 AA AA 55 00 00 01 05 crc AA 55 00 00 81 05
\* crc yields two messages, of kinds 0x01 and 0x81, both with sequence 5.
HeaderLoByte ==
    (lastop' = "parse_byte" /\ wire' # wire /\ parser.state = "HEADER_LO")
        => /\ ret' = 0
           /\ parser'.frames_parsed = parser.frames_parsed
           /\ parser'.crc_errors = parser.crc_errors
           /\ Head(wire) = 170
                => /\ parser'.state = "HEADER_LO"
                   /\ parser'.buffer_pos = 1
                   /\ parser'.sync_errors = parser.sync_errors
           /\ Head(wire) = 85
                => /\ parser'.state = "LENGTH_HI"
                   /\ parser'.buffer_pos = 2
                   /\ parser'.sync_errors = parser.sync_errors
           /\ Head(wire) \notin {170, 85}
                => /\ parser'.state = "IDLE"
                   /\ parser'.buffer_pos = 0
                   /\ Val32(parser'.sync_errors) = Val32(parser.sync_errors) + 1

ResyncStream ==
    TwoKindsFed
        => /\ Len(emitted) = 2
           /\ emitted[1].msg_type = 1 /\ emitted[1].sequence = 5
           /\ emitted[2].msg_type = 129 /\ emitted[2].sequence = 5
           /\ emitted[1].payload_len = 0 /\ emitted[2].payload_len = 0

C30_HeaderLoResync == [][HeaderLoByte]_vars /\ []ResyncStream

C30_Witness ==
    /\ TwoKindsFed
    /\ lastop = "parse_byte"
    /\ Len(emitted) = 2
    /\ emitted[2].msg_type = 129
    /\ Val32(parser.frames_parsed) = 2

\* The requests the device answers: PING, REQUEST_METRICS, GET_STATUS, and
\* EXECUTE_COMMAND with a payload.
Answerable(m) ==
    \/ m.msg_type \in {DEVPROTO_MSG_PING, DEVPROTO_MSG_REQUEST_METRICS, DEVPROTO_MSG_GET_STATUS}
    \/ m.msg_type = DEVPROTO_MSG_EXECUTE_COMMAND /\ m.payload_len >= 1

\* TYPE and SEQUENCE of a frame are its fifth and sixth byte.
FrameKind(frame) == frame[5]

FrameSequence(frame) == frame[6]

\* C31: the response frames the device has built are, one for one and in
\* order, those of the answerable requests it has handled: each carries the
\* sequence of its request and the request's kind with bit 0x80 set.
C31_SequenceEcho ==
    LET handled == SelectSeq(emitted, Answerable)
    IN  /\ Len(replies) = Len(handled)
        /\ \A i \in 1..Len(handled) :
             /\ FrameSequence(replies[i]) = handled[i].sequence
             /\ FrameKind(replies[i]) = BitOr(handled[i].msg_type, 128)

C31_Witness ==
    /\ Len(emitted) = 2
    /\ emitted[1].msg_type = DEVPROTO_MSG_EXECUTE_COMMAND /\ emitted[1].payload_len = 1
    /\ emitted[1].sequence = 5
    /\ emitted[2].msg_type = DEVPROTO_MSG_REQUEST_METRICS /\ emitted[2].sequence = 85
    /\ Len(replies) = 2
    /\ FrameKind(replies[1]) = DEVPROTO_MSG_COMMAND_RESULT
    /\ FrameKind(replies[2]) = DEVPROTO_MSG_METRICS_RESPONSE
    /\ Len(replies[2]) = 8 + 25

\* One intact request that the device answers was sent, and the device has
\* taken all of it off the line in two reads, a part of the frame in each.
SplitInTwo ==
    /\ plan = <<>>
    /\ wire = <<>>
    /\ Len(txlog) = 1
    /\ Intact(1)
    /\ Answerable(txlog[1].msg)
    /\ reads = 2

\* C32: a valid request frame that reaches main_loop split across two
\* successive reads is reassembled and answered with its response.
C32_SplitAnswered ==
    SplitInTwo
        => /\ Len(replies) = 1
           /\ FrameSequence(replies[1]) = txlog[1].msg.sequence
           /\ FrameKind(replies[1]) = BitOr(txlog[1].msg.msg_type, 128)

\* What is seen through the payload pointer of a message of the caller.
HeldBytes(msg) == IF msg.payload = NULL THEN <<>> ELSE SubSeq(msg.payload.bytes, 1, msg.payload_len)

\* An operation on one message leaves every other message as it was, payload
\* bytes included.
OthersUntouched ==
    \A k \in HeldSlots :
        k # call'.slot => /\ held'[k] = held[k]
                          /\ HeldBytes(held'[k]) = HeldBytes(held[k])

\* C33: no global mutable state.  An operation on one message does not
\* change another message, and the payload byte seen through an all-metrics
\* request stays the 0xFF the constructor gave it whatever is done to other
\* messages.
C33_NoSharedState == [][OthersUntouched]_vars

\* The states in which the declared length has been checked.
LengthChecked == {"TYPE", "SEQUENCE", "PAYLOAD", "CRC_HI", "CRC_LO", "COMPLETE"}

BufferBounds ==
    /\ parser.state \in LengthChecked => parser.expected_length <= DEVPROTO_MAX_PAYLOAD_SIZE
    /\ parser.payload_received <= parser.expected_length
    /\ parser.state = "PAYLOAD"
         => /\ parser.buffer_pos = DEVPROTO_HEADER_SIZE + parser.payload_received
            /\ parser.buffer_pos < DEVPROTO_MAX_FRAME_SIZE
    /\ parser.buffer_pos <= DEVPROTO_HEADER_SIZE + DEVPROTO_MAX_PAYLOAD_SIZE
    /\ DEVPROTO_HEADER_SIZE + DEVPROTO_MAX_PAYLOAD_SIZE < DEVPROTO_MAX_FRAME_SIZE
    /\ Len(parser.buffer) <= DEVPROTO_MAX_FRAME_SIZE

\* A byte fed in PAYLOAD is stored: the call does not end in the overflow
\* branch.
PayloadStored ==
    (lastop' = "parse_byte" /\ parser.state = "PAYLOAD")
        => /\ ret' # DEVPROTO_FRAME_ERR_OVERFLOW
           /\ parser'.sync_errors = parser.sync_errors
           /\ parser'.payload_received = parser.payload_received + 1

\* C34: whatever bytes an initialised parser is fed, expected_length is at
\* most 4096 in TYPE, SEQUENCE, PAYLOAD, CRC_HI, CRC_LO and COMPLETE,
\* payload_received is at most expected_length, buffer_pos is
\* 6 + payload_received in PAYLOAD and never above 6 + 4096, which is below
\* DEVPROTO_MAX_FRAME_SIZE: no byte is written outside the buffer and the
\* overflow branch of PAYLOAD is never taken.
C34_BufferBounds == [][PayloadStored]_vars /\ []BufferBounds

\* The last payload byte of the longest frame is in the buffer.
C34_Witness ==
    /\ lastop = "parse_byte"
    /\ parser.state = "CRC_HI"
    /\ parser.expected_length = DEVPROTO_MAX_PAYLOAD_SIZE
    /\ parser.payload_received = DEVPROTO_MAX_PAYLOAD_SIZE
    /\ parser.buffer_pos = DEVPROTO_HEADER_SIZE + DEVPROTO_MAX_PAYLOAD_SIZE

\* The parser after data[i..] is fed to it one byte at a time, with a reset
\* after each byte that completes a frame.
RECURSIVE FeedEach(_, _, _)
FeedEach(p, data, i) ==
    IF i > Len(data) THEN p
    ELSE Only({ FeedEach(IF r.ret = 1 THEN devproto_frame_parser_reset(r.p) ELSE r.p,
                         data, i + 1) :
                r \in {devproto_frame_parse_byte(p, data[i])} })

\* A devproto_frame_parse call leaves the parser where feeding all its len
\* bytes would.
ParseFeedsAll ==
    lastop' = "parse" => parser' = FeedEach(parser, SubSeq(wire, 1, lastlen'), 1)

\* Two intact frames were sent and the receiver has taken all of the line.
BothTaken ==
    /\ plan = <<>> /\ wire = <<>> /\ ~resets
    /\ Len(txlog) = 2 /\ Intact(1) /\ Intact(2)
    /\ lastop = "parse"

\* C35: devproto_frame_parse feeds every one of its len bytes to the state
\* machine, whatever max_messages >= 1 is: the parser ends where feeding the
\* bytes one at a time would leave it, and a valid frame behind the
\* max_messages-th completed one in the same data is counted like the others.
C35_FeedsEveryByte ==
    /\ [][ParseFeedsAll]_vars
    /\ [](BothTaken => Val32(parser.frames_parsed) = 2)

\* The uint32_t b holds the value of a plus n, for 0 <= n < 2^16.
Grown(a, b, n) ==
    IF a.lo + n < 65536 THEN b = [hi |-> a.hi, lo |-> a.lo + n]
    ELSE a.hi < 65535 /\ b = [hi |-> a.hi + 1, lo |-> a.lo + n - 65536]

\* The counters a call changed.
Changed ==
    {c \in {"frames_parsed", "crc_errors", "sync_errors"} : parser'[c] # parser[c]}

ReturnAgrees ==
    /\ lastop' = "parse_byte"
         => /\ ret' = 1 <=> Grown(parser.frames_parsed, parser'.frames_parsed, 1)
            /\ ret' = DEVPROTO_FRAME_ERR_CRC
                 <=> Grown(parser.crc_errors, parser'.crc_errors, 1)
            /\ ret' = DEVPROTO_FRAME_ERR_OVERFLOW
                 => Grown(parser.sync_errors, parser'.sync_errors, 1)
            /\ Cardinality(Changed) <= 1
            /\ \A c \in Changed : Grown(parser[c], parser'[c], 1)
    /\ lastop' = "parse"
         => /\ ret' >= 0
            /\ Grown(parser.frames_parsed, parser'.frames_parsed, ret')

\* C36: on every devproto_frame_parse_byte call the return value and the
\* counters agree: 1 exactly when frames_parsed increases by 1,
\* DEVPROTO_FRAME_ERR_CRC exactly when crc_errors increases by 1,
\* DEVPROTO_FRAME_ERR_OVERFLOW only when sync_errors increases by 1, and at
\* most one counter changes, by at most 1; devproto_frame_parse returns the
\* number frames_parsed increased by during the call.
C36_ReturnAgrees == [][ReturnAgrees]_vars

\* The last call was devproto_frame_build on a message and into a buffer.
FrameBuilt == call.fn = "devproto_frame_build" /\ call.msg # NULL /\ call.buffer # NULL

\* C37: devproto_frame_build emits no frame whose payload bytes were not
\* taken from the message: a frame it returns carries payload_len bytes read
\* through msg->payload, and when msg->payload is NULL and payload_len > 0 it
\* returns an error instead of 8 + payload_len.
C37_PayloadFromMessage ==
    FrameBuilt
        => /\ result.ret > 0 /\ call.msg.payload_len > 0
                => /\ call.msg.payload # NULL
                   /\ SubSeq(result.bytes, DEVPROTO_HEADER_SIZE + 1,
                             DEVPROTO_HEADER_SIZE + call.msg.payload_len)
                        = SubSeq(call.msg.payload.bytes, 1, call.msg.payload_len)
           /\ (call.msg.payload = NULL /\ call.msg.payload_len > 0) => result.ret < 0

\* send_and_receive has returned success.
Answered == call.fn = "send_and_receive" /\ result # NoCall /\ result.ret = 0

\* C38: send_and_receive returns success only with a frame whose sequence is
\* that of the request it sent; a frame with another sequence that arrives
\* first, an event or a late response to an earlier request, is not returned
\* as the response.
C38_Correlation == Answered => result.response.sequence = call.request.sequence

\* C39: no descriptor leak in the TCP transport.  Once
\* devproto_transport_destroy has run, whatever open, send, recv and close
\* calls came before it, every socket descriptor tcp_open obtained has been
\* closed, also when recv saw the peer close the connection and when open was
\* called more than once.
C39_NoDescriptorLeak == transport.freed => open_fds = {}

====
